---------------------------- MODULE Spec2Model ----------------------------
(***************************************************************************)
(* EmotionalTextureAnalyzer (src/emotionaltextureanalyzer.py).             *)
(*                                                                         *)
(* A text is a sequence of one-character strings.  Numbers that the code   *)
(* holds as floats with two decimals are held here as integers counting    *)
(* hundredths ("cents"): a score of 33.33 is 3333, a modifier of 1.1 is    *)
(* 110, a weight of 1.2 is 120.  round(x, 2) is rounding of the exact      *)
(* quotient to the nearest cent, halves to the even cent; the binary       *)
(* representation error of a double is not modelled.                       *)
(*                                                                         *)
(* The registry holds the patterns of the source that can match a text     *)
(* over the words used here, each written as the list of literal strings   *)
(* its alternation accepts, in the order the regular expression tries them.*)
(***************************************************************************)
EXTENDS Integers, Sequences, FiniteSets, TLC

VARIABLES
    profiles,   \* self.profiles: agent name -> EmotionalProfile
    now,        \* the reading of datetime.now()
    held,       \* the latest analyze call that returned: its arguments and the Analysis
    out,        \* the latest call: operation, arguments and what it returned or raised
    db_path,    \* self.db_path: None or the Path handed to __init__
    store,      \* the files that exist, each with what sqlite3 finds in it
    calls,      \* the add_to_profile calls of the threads of the host: position and locals
    heap,       \* the EmotionalProfile objects the threads made, by their identity
    lock        \* the lock of a host that serializes the calls: its holder

vars == <<profiles, now, held, out, db_path, store, calls, heap, lock>>

-----------------------------------------------------------------------------
(* Bounds of the model *)

MaxWords == 2        \* generated texts join at most this many vocabulary words
MaxClock == 1        \* the clock advances at most this many times
MaxAnalyses == 2     \* analyses recorded over all profiles
MaxProbe == 7        \* _get_intensity_level is probed on 0.00 .. MaxProbe.00
MaxBatch == 3        \* analyze_messages is called on sequences of at most this many messages
MaxRecorded == 3      \* analyses of a profile that is read back
MaxRows == 3         \* rows of the table communication_logs
MaxThreads == 2      \* threads of the host that call add_to_profile

-----------------------------------------------------------------------------
(* Characters and strings *)

UpperCase == <<"A","B","C","D","E","F","G","H","I","J","K","L","M",
               "N","O","P","Q","R","S","T","U","V","W","X","Y","Z">>
LowerCase == <<"a","b","c","d","e","f","g","h","i","j","k","l","m",
               "n","o","p","q","r","s","t","u","v","w","x","y","z">>
Digits == {"0","1","2","3","4","5","6","7","8","9"}
Whitespace == {" ", "\t", "\n"}

Range(f) == { f[i] : i \in DOMAIN f }

LowerOf == [c \in Range(UpperCase) |-> LowerCase[CHOOSE i \in 1..26 : UpperCase[i] = c]]
UpperOf == [c \in Range(LowerCase) |-> UpperCase[CHOOSE i \in 1..26 : LowerCase[i] = c]]

\* str.lower() / the case folding of re.IGNORECASE, one character
CharLower(c) == IF c \in DOMAIN LowerOf THEN LowerOf[c] ELSE c

CharUpper(c) == IF c \in DOMAIN UpperOf THEN UpperOf[c] ELSE c

StrLower(s) == [i \in 1..Len(s) |-> CharLower(s[i])]
StrUpper(s) == [i \in 1..Len(s) |-> CharUpper(s[i])]
\* every letter at an odd index upper-cased, every other one lower-cased
StrMixed(s) == [i \in 1..Len(s) |-> IF i % 2 = 1 THEN CharUpper(s[i]) ELSE CharLower(s[i])]

\* \w of the re module, on the characters used here
WordChars == Range(UpperCase) \cup Range(LowerCase) \cup Digits \cup {"_"}

IsWordChar(c) == c \in WordChars

RECURSIVE Repeat(_, _)
Repeat(s, n) == IF n = 0 THEN <<>> ELSE s \o Repeat(s, n - 1)

RECURSIVE Join(_)
\* " ".join(words)
Join(ws) ==
    IF Len(ws) = 0 THEN <<>>
    ELSE IF Len(ws) = 1 THEN ws[1]
    ELSE ws[1] \o <<" ">> \o Join(Tail(ws))

-----------------------------------------------------------------------------
(* Python values handed to analyze.  A str is its characters s followed by *)
(* pad copies of PadWord, so that a text of many words is one value.       *)

PadWord == <<" ","a","m">>

None == [type |-> "NoneType"]
PyInt(n) == [type |-> "int", n |-> n]
PyStr(s) == [type |-> "str", s |-> s, pad |-> 0]
PyPath(s) == [type |-> "Path", s |-> s]

\* the value of lock when the host has no lock, and when nobody holds it
NoLock == -1
Free == 0
Padded(s, n) == [type |-> "str", s |-> s, pad |-> n]

IsStr(v) == v.type = "str"

\* len(text)
StrLen(v) == Len(v.s) + v.pad * Len(PadWord)

\* the test "v is not None" in the place of bool(v)
TruthyUnlessNone(v) == v.type \notin {"NoneType", "missing"}

\* bool(v)
Truthy(v) ==
    CASE v.type = "NoneType" -> FALSE
      [] v.type = "int" -> v.n # 0
      [] v.type = "str" -> StrLen(v) > 0
      [] v.type = "missing" -> FALSE
      [] v.type = "Path" -> TRUE

\* The characters a pattern is run over.  No pattern of the registry holds
\* the word "am", so nothing matches inside the padding; its first copy is
\* kept so that the word boundary at the end of s is the real one.
Scanned(v) == IF v.pad > 0 THEN v.s \o PadWord ELSE v.s

\* the words counted as one more than the spaces
SplitCountSpaces(s) == 1 + Cardinality({ i \in 1..Len(s) : s[i] = " " })

\* len(text.split()): the maximal runs of non-whitespace characters
SplitCount(s) ==
    Cardinality({ i \in 1..Len(s) :
        /\ s[i] \notin Whitespace
        /\ (i = 1 \/ s[i - 1] \in Whitespace) })

\* the word count kept at one or more
WordCountFloor(v) == IF SplitCount(v.s) + v.pad < 1 THEN 1 ELSE SplitCount(v.s) + v.pad

WordCount(v) == SplitCount(v.s) + v.pad

-----------------------------------------------------------------------------
(* Pattern registry *)

\* iteration order of the EMOTIONAL_DIMENSIONS dict
DimOrder == <<"WARMTH", "RESONANCE", "LONGING", "FEAR", "PEACE",
              "RECOGNITION", "BELONGING", "JOY", "CURIOSITY", "DETERMINATION">>

Dims == Range(DimOrder)

\* A pattern \b(?:a1|a2|...)\b is the sequence <<a1, a2, ...>> of its literals.
EMOTIONAL_DIMENSIONS ==
  [
    WARMTH |-> [ weight |-> 100, patterns |->
        << << <<"f","a","m","i","l","y">> >> >> ],
    RESONANCE |-> [ weight |-> 100, patterns |->
        << << <<"h","a","r","m","o","n","y">> >> >> ],
    LONGING |-> [ weight |-> 100, patterns |->
        << << <<"w","i","s","h","e","s">>, <<"w","i","s","h","e","d">>,
              <<"w","i","s","h","i","n","g">>, <<"w","i","s","h">> >>,
           << <<"i"," ","w","i","s","h">> >> >> ],
    FEAR |-> [ weight |-> 100, patterns |->
        << << <<"a","f","r","a","i","d">> >> >> ],
    PEACE |-> [ weight |-> 100, patterns |->
        << << <<"e","a","s","e">> >> >> ],
    RECOGNITION |-> [ weight |-> 120, patterns |->
        << << <<"a","w","a","r","e">>, <<"a","w","a","r","e","n","e","s","s">> >>,
           << <<"d","i","s","c","o","v","e","r","y">>,
              <<"d","i","s","c","o","v","e","r","e","d">>,
              <<"d","i","s","c","o","v","e","r","i","n","g">>,
              <<"d","i","s","c","o","v","e","r","s">>,
              <<"d","i","s","c","o","v","e","r">> >> >> ],
    BELONGING |-> [ weight |-> 100, patterns |->
        << << <<"f","a","m","i","l","y">> >> >> ],
    JOY |-> [ weight |-> 100, patterns |->
        << << <<"h","a","p","p","y">>, <<"h","a","p","p","i","n","e","s","s">>,
              <<"h","a","p","p","i","l","y">> >> >> ],
    CURIOSITY |-> [ weight |-> 100, patterns |->
        << << <<"d","i","s","c","o","v","e","r","y">>,
              <<"d","i","s","c","o","v","e","r","e","d">>,
              <<"d","i","s","c","o","v","e","r","i","n","g">>,
              <<"d","i","s","c","o","v","e","r","s">>,
              <<"d","i","s","c","o","v","e","r">> >> >> ],
    DETERMINATION |-> [ weight |-> 100, patterns |->
        << << <<"m","u","s","t">> >> >> ]
  ]

INTENSITY_AMPLIFIERS ==
    << << <<"v","e","r","y">> >>,
       << <<"e","x","t","r","e","m","e","l","y">> >> >>

INTENSITY_DIMINISHERS ==
    << << <<"s","l","i","g","h","t","l","y">> >>,
       << <<"m","a","y","b","e">> >> >>

-----------------------------------------------------------------------------
(* re.compile(p, re.IGNORECASE) and pattern.findall(text) *)

CompileNoFlag(alts) == [alts |-> alts, ignorecase |-> FALSE]

Compile(alts) == [alts |-> alts, ignorecase |-> TRUE]

\* \b between s[i-1] and s[i]: exactly one of the two is a word character
WordBoundary(s, i) ==
    LET before == i > 1 /\ i - 1 <= Len(s) /\ IsWordChar(s[i - 1])
        after  == i >= 1 /\ i <= Len(s) /\ IsWordChar(s[i])
    IN  before # after

\* the literal alt stands at s[i..] between two word boundaries
AltMatchesAt(alt, s, i) ==
    /\ i + Len(alt) - 1 <= Len(s)
    /\ s[i] = alt[1]
    /\ WordBoundary(s, i)
    /\ SubSeq(s, i, i + Len(alt) - 1) = alt
    /\ WordBoundary(s, i + Len(alt))

\* length of the match of the pattern starting at i, 0 when there is none:
\* the first alternative, in the order of the alternation, that matches
MatchLenAt(alts, s, i) ==
    LET hits == { k \in 1..Len(alts) : AltMatchesAt(alts[k], s, i) }
    IN  IF hits = {} THEN 0
        ELSE Len(alts[CHOOSE k \in hits : \A j \in hits : k <= j])

RECURSIVE ScanFrom(_, _, _, _, _)
\* the non-overlapping matches from position i on, leftmost first; raw is
\* the text, s the text as the pattern compares it and starts the positions
\* where the pattern matches
ScanFrom(alts, raw, s, starts, i) ==
    LET ahead == { j \in starts : j >= i }
    IN  IF ahead = {} THEN <<>>
        ELSE LET j == CHOOSE k \in ahead : \A h \in ahead : k <= h
                 n == MatchLenAt(alts, s, j)
             IN  <<SubSeq(raw, j, j + n - 1)>> \o ScanFrom(alts, raw, s, starts, j + n)

\* the positions of s where the pattern matches
MatchStarts(alts, s) == { j \in 1..Len(s) : MatchLenAt(alts, s, j) > 0 }

\* the scan of the text raw, compared as s
Scan(alts, raw, s) == ScanFrom(alts, raw, s, MatchStarts(alts, s), 1)

\* pattern.findall(text): the matched substrings of text, as written in text
FindAll(pattern, v) ==
    Scan(pattern.alts, Scanned(v), IF pattern.ignorecase THEN StrLower(Scanned(v)) ELSE Scanned(v))

-----------------------------------------------------------------------------
(* Arithmetic in cents *)

Max(a, b) == IF a >= b THEN a ELSE b
Min(a, b) == IF a <= b THEN a ELSE b

\* round(num / den) to the nearest integer, halves to the even one (den > 0)
RoundHalfEven(num, den) ==
    LET q == num \div den
        r == num % den
    IN  IF 2 * r > den THEN q + 1
        ELSE IF 2 * r < den THEN q
        ELSE IF q % 2 = 0 THEN q ELSE q + 1

RECURSIVE SumOver(_, _)
\* sum(f[d] for d in the sequence ds)
SumOver(f, ds) == IF Len(ds) = 0 THEN 0 ELSE f[Head(ds)] + SumOver(f, Tail(ds))

RECURSIVE Concat(_)
\* the concatenation of a sequence of sequences
Concat(ss) == IF Len(ss) = 0 THEN <<>> ELSE Head(ss) \o Concat(Tail(ss))

-----------------------------------------------------------------------------
(* EmotionalTextureAnalyzer.__init__: the compiled patterns *)

compiled_patterns ==
    [d \in Dims |->
        [k \in 1..Len(EMOTIONAL_DIMENSIONS[d].patterns) |->
            Compile(EMOTIONAL_DIMENSIONS[d].patterns[k])]]

amplifiers == [k \in 1..Len(INTENSITY_AMPLIFIERS) |-> Compile(INTENSITY_AMPLIFIERS[k])]

diminishers == [k \in 1..Len(INTENSITY_DIMINISHERS) |-> Compile(INTENSITY_DIMINISHERS[k])]

-----------------------------------------------------------------------------
(* EmotionalTextureAnalyzer.analyze and its helpers *)

\* the guard of analyze without its isinstance test
RejectsFalsyOnly(text) == ~Truthy(text)

\* if not text or not isinstance(text, str): raise ValueError
Rejects(text) == ~Truthy(text) \/ ~IsStr(text)

\* matches = []; for pattern in patterns: matches.extend(pattern.findall(text))
Matches(dim, text) ==
    Concat([k \in 1..Len(compiled_patterns[dim]) |-> FindAll(compiled_patterns[dim][k], text)])

\* the raw score with each distinct matched string counted once
RawScoreUnique(matches, dim) == Cardinality(Range(matches)) * EMOTIONAL_DIMENSIONS[dim].weight

\* raw_score = len(matches) * weight
RawScore(matches, dim) == Len(matches) * EMOTIONAL_DIMENSIONS[dim].weight

\* round((raw_score / word_count) * 100, 2), and 0.0 when there is no word
NormalizedScore(raw_score, word_count) ==
    IF word_count > 0 THEN RoundHalfEven(raw_score * 100, word_count) ELSE 0

\* the clamp without its lower end
ClampAbove(modifier) == Min(200, modifier)

\* the clamp without its upper end
ClampBelow(modifier) == Max(50, modifier)

\* max(0.5, min(2.0, modifier))
Clamp(modifier) == Max(50, Min(200, modifier))

\* sum(len(p.findall(text)) for p in patterns)
CountAll(patterns, text) ==
    SumOver([k \in 1..Len(patterns) |-> Len(FindAll(patterns[k], text))],
            [k \in 1..Len(patterns) |-> k])

\* the modifier with the diminishers added instead of subtracted
calculate_intensity_modifier_added(text) ==
    LET amplifier_count  == CountAll(amplifiers, text)
        diminisher_count == CountAll(diminishers, text)
        modifier == 100 + (amplifier_count * 10) + (diminisher_count * 10)
    IN  Clamp(modifier)

\* analyzer._calculate_intensity_modifier(text)
calculate_intensity_modifier(text) ==
    LET amplifier_count  == CountAll(amplifiers, text)
        diminisher_count == CountAll(diminishers, text)
        modifier == 100 + (amplifier_count * 10) - (diminisher_count * 10)
    IN  Clamp(modifier)

\* the adjusted score rounded to a whole number
AdjustedScoreWhole(score, intensity_modifier) ==
    100 * RoundHalfEven(score * intensity_modifier, 10000)

\* round(score * intensity_modifier, 2)
AdjustedScore(score, intensity_modifier) == RoundHalfEven(score * intensity_modifier, 100)

\* the last dimension, in registry order, that holds the greatest score
ArgMaxLast(scores) ==
    DimOrder[CHOOSE i \in 1..Len(DimOrder) :
        /\ \A j \in 1..Len(DimOrder) : scores[DimOrder[j]] <= scores[DimOrder[i]]
        /\ \A j \in (i + 1)..Len(DimOrder) : scores[DimOrder[j]] < scores[DimOrder[i]]]

\* max(adjusted_scores, key=adjusted_scores.get): the first key, in the
\* order of the dict, that holds the greatest value
ArgMax(scores) ==
    DimOrder[CHOOSE i \in 1..Len(DimOrder) :
        /\ \A j \in 1..Len(DimOrder) : scores[DimOrder[j]] <= scores[DimOrder[i]]
        /\ \A j \in 1..(i - 1) : scores[DimOrder[j]] < scores[DimOrder[i]]]

\* the bands with their lower ends exclusive
get_intensity_level_open(intensity) ==
    IF intensity <= 100 THEN "subtle"
    ELSE IF intensity <= 300 THEN "moderate"
    ELSE IF intensity <= 600 THEN "strong"
    ELSE "intense"

get_intensity_level(intensity) ==
    IF intensity < 100 THEN "subtle"
    ELSE IF intensity < 300 THEN "moderate"
    ELSE IF intensity < 600 THEN "strong"
    ELSE "intense"

\* the descending sort with equal scores in the reverse order of the dict
SortedDescTiesReversed(scores) ==
    LET Before(i, j) ==
            \/ scores[DimOrder[i]] > scores[DimOrder[j]]
            \/ scores[DimOrder[i]] = scores[DimOrder[j]] /\ i > j
        Rank(j) == 1 + Cardinality({ i \in 1..Len(DimOrder) : Before(i, j) })
    IN  [k \in 1..Len(DimOrder) |->
            DimOrder[CHOOSE j \in 1..Len(DimOrder) : Rank(j) = k]]

\* sorted(scores.items(), key=lambda x: x[1], reverse=True): a stable sort,
\* so equal scores keep the order of the dict
SortedDesc(scores) ==
    LET Before(i, j) ==
            \/ scores[DimOrder[i]] > scores[DimOrder[j]]
            \/ scores[DimOrder[i]] = scores[DimOrder[j]] /\ i < j
        Rank(j) == 1 + Cardinality({ i \in 1..Len(DimOrder) : Before(i, j) })
    IN  [k \in 1..Len(DimOrder) |->
            DimOrder[CHOOSE j \in 1..Len(DimOrder) : Rank(j) = k]]

\* the signature cut after the fourth entry instead of the third
generate_signature_four(scores) ==
    LET sorted_dims == SubSeq(SortedDesc(scores), 1, 4)
    IN  [k \in 1..Cardinality({ i \in 1..4 : scores[sorted_dims[i]] > 0 }) |->
            LET d == sorted_dims[CHOOSE i \in 1..4 :
                        /\ scores[sorted_dims[i]] > 0
                        /\ Cardinality({ h \in 1..i : scores[sorted_dims[h]] > 0 }) = k]
            IN  [dim |-> d, score |-> scores[d]]]

\* "|".join(f"{dim}:{score}" for dim, score in sorted_dims[:3] if score > 0):
\* the entries of the joined string, in order
generate_signature(scores) ==
    LET sorted_dims == SubSeq(SortedDesc(scores), 1, 3)
    IN  [k \in 1..Cardinality({ i \in 1..3 : scores[sorted_dims[i]] > 0 }) |->
            LET d == sorted_dims[CHOOSE i \in 1..3 :
                        /\ scores[sorted_dims[i]] > 0
                        /\ Cardinality({ h \in 1..i : scores[sorted_dims[h]] > 0 }) = k]
            IN  [dim |-> d, score |-> scores[d]]]

\* adjusted_scores = {dim: round(score * intensity_modifier, 2) ...} over
\* dimension_scores[dim] = round(normalized_score, 2)
AdjustedScores(matches, word_count, intensity_modifier) ==
    [d \in Dims |->
        AdjustedScore(NormalizedScore(RawScore(matches[d], d), word_count),
                      intensity_modifier)]

\* round(sum(adjusted_scores.values()) / len(adjusted_scores), 2)
OverallIntensity(adjusted_scores) ==
    RoundHalfEven(SumOver(adjusted_scores, DimOrder), Len(DimOrder))

\* the result dict of analyze, but for its timestamp and context
Result(text_length, word_count, matches, intensity_modifier, adjusted_scores, dominant_emotion, overall_intensity) ==
    [ text_length        |-> text_length,
      word_count         |-> word_count,
      dimension_scores   |-> adjusted_scores,
      dimension_matches  |-> [d \in Dims |-> Range(matches[d])],
      dominant_emotion   |-> dominant_emotion,
      dominant_score     |-> adjusted_scores[dominant_emotion],
      overall_intensity  |-> overall_intensity,
      intensity_level    |-> get_intensity_level(overall_intensity),
      intensity_modifier |-> intensity_modifier,
      emotional_signature |-> generate_signature(adjusted_scores) ]

\* the steps of analyze once the scores are adjusted
ScoringFromAdjusted(text_length, word_count, matches, intensity_modifier, adjusted_scores) ==
    Result(text_length, word_count, matches, intensity_modifier, adjusted_scores,
           ArgMax(adjusted_scores), OverallIntensity(adjusted_scores))

\* the steps of analyze once the matches and the modifier are known
ScoringFromMatches(text_length, word_count, matches, intensity_modifier) ==
    ScoringFromAdjusted(text_length, word_count, matches, intensity_modifier,
            AdjustedScores(matches, word_count, intensity_modifier))

\* What analyze computes from the text alone: every field of its result
\* but the timestamp and the context.
Scoring(text) ==
    ScoringFromMatches(StrLen(text), WordCount(text), [d \in Dims |-> Matches(d, text)],
            calculate_intensity_modifier(text))

-----------------------------------------------------------------------------
(* EmotionalProfile *)

\* EmotionalProfile.__init__ at clock value t
NewProfile(agent_name, t) ==
    [agent_name |-> agent_name, analyses |-> <<>>, created_at |-> t, last_updated |-> t]

\* add_analysis putting the analysis in front
add_analysis_front(profile, analysis, t) ==
    [profile EXCEPT !.analyses = <<analysis>> \o @, !.last_updated = t]

\* add_analysis recording the four keys of a snapshot only
add_analysis_snapshot(profile, analysis, t) ==
    [profile EXCEPT
        !.analyses = Append(@, [k \in DOMAIN analysis \cap
                                    {"timestamp", "dominant_emotion",
                                     "overall_intensity", "dimension_scores"} |-> analysis[k]]),
        !.last_updated = t]

\* EmotionalProfile.add_analysis at clock value t
add_analysis(profile, analysis, t) ==
    [profile EXCEPT !.analyses = Append(@, analysis), !.last_updated = t]

-----------------------------------------------------------------------------
(* Inputs *)

Vocabulary ==
    { <<"h","a","p","p","y">>, <<"H","A","P","P","Y">>, <<"a","m">>,
      <<"v","e","r","y">>, <<"m","a","y","b","e">>, <<"a","w","a","r","e">>,
      <<"f","a","m","i","l","y">>, <<"d","i","s","c","o","v","e","r">>,
      <<"i">>, <<"w","i","s","h">> }

GeneratedTexts ==
    { PyStr(Join(ws)) : ws \in UNION { [1..k -> Vocabulary] : k \in 0..MaxWords } }

T_i_am_happy == <<"i"," ","a","m"," ","h","a","p","p","y">>
T_I_AM_HAPPY == <<"I"," ","A","M"," ","H","A","P","P","Y">>
T_I_aM_HaPpY == <<"I"," ","a","M"," ","H","a","P","p","Y">>
T_I_am_happy_dot == <<"I"," ","a","m"," ","h","a","p","p","y",".">>
T_extremely == <<"I"," ","a","m"," ","e","x","t","r","e","m","e","l","y"," ",
                 "h","a","p","p","y",".">>
T_slightly == <<"I"," ","a","m"," ","s","l","i","g","h","t","l","y"," ",
                "h","a","p","p","y",".">>
T_five == <<"O","n","e"," ","t","w","o"," ","t","h","r","e","e"," ",
            "f","o","u","r"," ","f","i","v","e">>
T_four == <<"a","f","r","a","i","d"," ","h","a","r","m","o","n","y"," ",
            "e","a","s","e"," ","m","u","s","t">>
T_joined == <<"h","a","p","p","y","h","a","p","p","y">>
T_happy == <<"h","a","p","p","y">>
T_aware == <<"a","w","a","r","e">>
T_family_discover == <<"f","a","m","i","l","y"," ","d","i","s","c","o","v","e","r">>
T_very_aware_aware == <<"v","e","r","y"," ","a","w","a","r","e"," ","a","w","a","r","e">>
T_spaced == <<" ","a","m"," "," ","h","a","p","p","y","\t">>
T_very15 == Repeat(<<"v","e","r","y"," ">>, 15)
T_maybe15 == Repeat(<<"m","a","y","b","e"," ">>, 15)

ExampleTexts ==
    { PyStr(T_i_am_happy), PyStr(T_I_AM_HAPPY), PyStr(T_I_aM_HaPpY),
      PyStr(T_I_am_happy_dot), PyStr(T_extremely), PyStr(T_slightly),
      PyStr(T_five), PyStr(T_four), PyStr(T_joined), PyStr(<<" ">>),
      PyStr(T_very_aware_aware), PyStr(T_spaced),
      PyStr(T_very15), PyStr(T_maybe15),
      PyStr(T_very15 \o T_happy), PyStr(T_maybe15 \o T_happy),
      PyStr(T_very15 \o T_maybe15 \o T_happy),
      PyStr(Repeat(<<"h","a","p","p","y"," ">>, 3)),
      Padded(T_happy, 9), Padded(T_happy, 999), Padded(T_happy, 20000),
      Padded(T_aware, 24000), Padded(T_family_discover, 10) }

Texts == GeneratedTexts \cup ExampleTexts

NonTexts == { None, PyInt(0), PyInt(123) }

FORGE == PyStr(<<"F","O","R","G","E">>)
CLIO == PyStr(<<"C","L","I","O">>)

Contexts == { None, FORGE }

SampleTexts == { PyStr(<<>>), PyStr(T_happy), PyStr(T_family_discover) }

\* the analyze calls of the stateful specification
SampleCalls ==
    { <<text, None>> : text \in SampleTexts \cup NonTexts } \cup { <<PyStr(T_happy), FORGE>> }

Agents == { "FORGE", "CLIO" }

-----------------------------------------------------------------------------
(* The record analyze returns *)

\* Scoring of every input text, evaluated once
Scored == [text \in { v \in Texts : ~Rejects(v) } |-> Scoring(text)]

\* The Analysis of an accepted input text under a context, read at clock
\* value t
Analysis(text, context, t) ==
    [timestamp |-> t, context |-> context] @@
    Scored[text]

-----------------------------------------------------------------------------
(* Calls *)

Pending(op, args) == [op |-> op, args |-> args, raised |-> "pending", value |-> None]
Raised(op, args, error) == [op |-> op, args |-> args, raised |-> error, value |-> None]
Returned(op, args, value) == [op |-> op, args |-> args, raised |-> "none", value |-> value]

\* analyze with a word counter that is kept between calls
DoAnalyzeCounting(text, context) ==
    IF Rejects(text)
    THEN /\ out' = Raised("analyze", <<text, context>>, "ValueError")
         /\ UNCHANGED <<calls, heap, lock, db_path, store, profiles, now, held>>
    ELSE LET result == Analysis(text, context, now)
             carried == IF held = None THEN 0 ELSE held.result.word_count
             counted == [result EXCEPT !.word_count = @ + carried]
         IN  /\ out' = Returned("analyze", <<text, context>>, counted)
             /\ held' = [text |-> text, context |-> context, result |-> counted]
             /\ UNCHANGED <<calls, heap, lock, db_path, store, profiles, now>>

\* analyze recording the Analysis it returns in the profile of FORGE
DoAnalyzeRecording(text, context) ==
    IF Rejects(text)
    THEN /\ out' = Raised("analyze", <<text, context>>, "ValueError")
         /\ UNCHANGED <<calls, heap, lock, db_path, store, profiles, now, held>>
    ELSE LET result == Analysis(text, context, now)
             existing == IF "FORGE" \in DOMAIN profiles
                         THEN profiles["FORGE"]
                         ELSE NewProfile("FORGE", now)
         IN  /\ out' = Returned("analyze", <<text, context>>, result)
             /\ held' = [text |-> text, context |-> context, result |-> result]
             /\ profiles' = [a \in DOMAIN profiles \cup {"FORGE"} |->
                               IF a = "FORGE" THEN add_analysis(existing, result, now)
                               ELSE profiles[a]]
             /\ UNCHANGED <<calls, heap, lock, db_path, store, now>>

\* analyzer.analyze(text, context)
DoAnalyze(text, context) ==
    IF Rejects(text)
    THEN /\ out' = Raised("analyze", <<text, context>>, "ValueError")
         /\ UNCHANGED <<calls, heap, lock, db_path, store, profiles, now, held>>
    ELSE IF ~IsStr(text)
    THEN \* text.lower() on a value that is no str
         /\ out' = Raised("analyze", <<text, context>>, "AttributeError")
         /\ UNCHANGED <<calls, heap, lock, db_path, store, profiles, now, held>>
    ELSE LET result == Analysis(text, context, now)
         IN  /\ out' = Returned("analyze", <<text, context>>, result)
             /\ held' = [text |-> text, context |-> context, result |-> result]
             /\ UNCHANGED <<calls, heap, lock, db_path, store, profiles, now>>

\* time passes between two calls
Tick ==
    /\ now < MaxClock
    /\ now' = now + 1
    /\ UNCHANGED <<calls, heap, lock, db_path, store, profiles, held, out>>

Analyze ==
    \E call \in SampleCalls : DoAnalyze(call[1], call[2])

RECURSIVE Recorded(_)
\* the analyses held by the profiles of the agents in S
Recorded(S) ==
    IF S = {} THEN 0
    ELSE LET a == CHOOSE x \in S : TRUE
         IN  Len(profiles[a].analyses) + Recorded(S \ {a})

\* add_to_profile keeping the profile of the agent it was called for only
AddToProfileAlone ==
    \E agent_name \in Agents :
        /\ held # None
        /\ Recorded(DOMAIN profiles) < MaxAnalyses
        /\ LET existing == IF agent_name \in DOMAIN profiles
                           THEN profiles[agent_name]
                           ELSE NewProfile(agent_name, now)
               updated == add_analysis(existing, held.result, now)
           IN  /\ profiles' = [a \in {agent_name} |-> updated]
               /\ out' = Returned("add_to_profile", <<agent_name>>, updated)
        /\ UNCHANGED <<calls, heap, lock, db_path, store, now, held>>

\* analyzer.add_to_profile(agent_name, analysis), with the Analysis that
\* the latest analyze call returned
AddToProfile ==
    \E agent_name \in Agents :
        /\ held # None
        /\ Recorded(DOMAIN profiles) < MaxAnalyses
        /\ LET existing == IF agent_name \in DOMAIN profiles
                           THEN profiles[agent_name]
                           ELSE NewProfile(agent_name, now)
               updated == add_analysis(existing, held.result, now)
           IN  /\ profiles' = [a \in DOMAIN profiles \cup {agent_name} |->
                                 IF a = agent_name THEN updated ELSE profiles[a]]
               /\ out' = Returned("add_to_profile", <<agent_name>>, updated)
        /\ UNCHANGED <<calls, heap, lock, db_path, store, now, held>>

\* get_profile creating the profile it does not find
GetProfileCreating ==
    \E agent_name \in Agents :
        /\ profiles' = [a \in DOMAIN profiles \cup {agent_name} |->
                          IF a \in DOMAIN profiles THEN profiles[a]
                          ELSE NewProfile(agent_name, now)]
        /\ out' = Returned("get_profile", <<agent_name>>, profiles'[agent_name])
        /\ UNCHANGED <<calls, heap, lock, db_path, store, now, held>>

\* analyzer.get_profile(agent_name): self.profiles.get(agent_name)
GetProfile ==
    \E agent_name \in Agents :
        /\ out' = Returned("get_profile", <<agent_name>>,
                           IF agent_name \in DOMAIN profiles
                           THEN profiles[agent_name] ELSE None)
        /\ UNCHANGED <<calls, heap, lock, db_path, store, profiles, now, held>>

-----------------------------------------------------------------------------
(* EmotionalTextureAnalyzer.analyze_messages *)

\* a key that a message dict does not hold
Missing == [type |-> "missing"]

UNKNOWN == PyStr(<<"U","N","K","N","O","W","N">>)
unknown == PyStr(<<"u","n","k","n","o","w","n">>)

\* msg.get(key, default)
Get(msg, key, default) == IF msg[key] = Missing THEN default ELSE msg[key]

\* the indices of the messages whose content is truthy, in order
RECURSIVE TruthyIndices(_, _)
TruthyIndices(messages, i) ==
    IF i > Len(messages) THEN <<>>
    ELSE IF Truthy(Get(messages[i], "content", PyStr(<<>>)))
    THEN <<i>> \o TruthyIndices(messages, i + 1)
    ELSE TruthyIndices(messages, i + 1)

\* the analyses taken from the last message to the first
BatchAnalysesBackward(messages, idx, t) ==
    [k \in 1..Len(idx) |->
        Analysis(messages[idx[Len(idx) + 1 - k]].content,
                 Get(messages[idx[Len(idx) + 1 - k]], "sender", UNKNOWN), t) @@
        [sender |-> Get(messages[idx[Len(idx) + 1 - k]], "sender", UNKNOWN),
         message_timestamp |-> Get(messages[idx[Len(idx) + 1 - k]], "timestamp", unknown)]]

\* analyses: the Analysis of each message with a truthy content, in the
\* order of the messages, with the two keys the loop adds to it
BatchAnalyses(messages, idx, t) ==
    [k \in 1..Len(idx) |->
        Analysis(messages[idx[k]].content, Get(messages[idx[k]], "sender", UNKNOWN), t) @@
        [sender |-> Get(messages[idx[k]], "sender", UNKNOWN),
         message_timestamp |-> Get(messages[idx[k]], "timestamp", unknown)]]

\* the averages, with ten zeros when no message was analyzed
AverageScoresOrZeros(analyses) ==
    [d \in Dims |->
        IF Len(analyses) = 0 THEN 0
        ELSE RoundHalfEven(
                SumOver([k \in 1..Len(analyses) |-> analyses[k].dimension_scores[d]],
                        [k \in 1..Len(analyses) |-> k]),
                Len(analyses))]

\* the averages with each message weighted by its word count
AverageScoresByWords(analyses) ==
    IF Len(analyses) = 0 THEN <<>>
    ELSE [d \in Dims |->
            RoundHalfEven(
                SumOver([k \in 1..Len(analyses) |->
                            analyses[k].dimension_scores[d] * analyses[k].word_count],
                        [k \in 1..Len(analyses) |-> k]),
                SumOver([k \in 1..Len(analyses) |-> analyses[k].word_count],
                        [k \in 1..Len(analyses) |-> k]))]

\* avg_scores: {dim: round(sum(scores) / len(scores), 2)}, empty when no
\* message was analyzed
AverageScores(analyses) ==
    IF Len(analyses) = 0 THEN <<>>
    ELSE [d \in Dims |->
            RoundHalfEven(
                SumOver([k \in 1..Len(analyses) |-> analyses[k].dimension_scores[d]],
                        [k \in 1..Len(analyses) |-> k]),
                Len(analyses))]

\* the by_sender entry with the intensities summed and not divided
SenderStatsSummed(sender_analyses) ==
    [count |-> Len(sender_analyses),
     avg_intensity |->
        SumOver([k \in 1..Len(sender_analyses) |-> sender_analyses[k].overall_intensity],
                [k \in 1..Len(sender_analyses) |-> k])]

\* the by_sender entry of the analyses of one sender
SenderStats(sender_analyses) ==
    [count |-> Len(sender_analyses),
     avg_intensity |->
        IF Len(sender_analyses) > 0
        THEN RoundHalfEven(
                SumOver([k \in 1..Len(sender_analyses) |-> sender_analyses[k].overall_intensity],
                        [k \in 1..Len(sender_analyses) |-> k]),
                Len(sender_analyses))
        ELSE 0]

\* the dict analyze_messages returns
BatchRecord(messages, analyses, avg_scores) ==
    [ total_messages    |-> Len(messages),
      analyzed_messages |-> Len(analyses),
      average_scores    |-> avg_scores,
      dominant_overall  |-> IF avg_scores # <<>> THEN ArgMax(avg_scores) ELSE "UNKNOWN",
      emotional_arc     |->
          [k \in 1..Len(analyses) |->
              [sender    |-> analyses[k].sender,
               dominant  |-> analyses[k].dominant_emotion,
               intensity |-> analyses[k].overall_intensity]],
      by_sender         |->
          [sender \in { analyses[k].sender : k \in 1..Len(analyses) } |->
              SenderStats(SelectSeq(analyses, LAMBDA a : a.sender = sender))],
      individual_analyses |-> analyses ]

Aggregate(messages, analyses) == BatchRecord(messages, analyses, AverageScores(analyses))

\* the BatchResult of analyze_messages when no analyze call raises
BatchResult(messages, t) ==
    Aggregate(messages, BatchAnalyses(messages, TruthyIndices(messages, 1), t))

\* analyzer.analyze_messages(messages)
DoAnalyzeMessages(messages) ==
    /\ out' =
        IF Len(messages) = 0
        THEN Raised("analyze_messages", <<messages>>, "ValueError")
        ELSE IF \E i \in 1..Len(messages) :
                    LET content == Get(messages[i], "content", PyStr(<<>>))
                    IN  Truthy(content) /\ Rejects(content)
        THEN \* the analyze call on that content raises, and nothing catches it
             Raised("analyze_messages", <<messages>>, "ValueError")
        ELSE Returned("analyze_messages", <<messages>>, BatchResult(messages, now))
    /\ UNCHANGED <<calls, heap, lock, db_path, store, profiles, now, held>>

SampleMessages ==
    { [content |-> PyStr(T_happy), sender |-> FORGE, timestamp |-> PyStr(<<"t","1">>)],
      [content |-> PyStr(<<>>), sender |-> CLIO, timestamp |-> PyStr(<<"t","2">>)] }

SampleBatches == UNION { [1..k -> SampleMessages] : k \in 0..1 }

AnalyzeMessages == \E messages \in SampleBatches : DoAnalyzeMessages(messages)

-----------------------------------------------------------------------------
(* EmotionalTextureAnalyzer.scan_database *)

BCH_DB == PyPath(<<"b","c","h",".","d","b">>)
NONEXISTENT == PyPath(<<"/","n","o","n","e","x","i","s","t","e","n","t","/","p","a","t","h",".","d","b">>)

Paths == { BCH_DB, NONEXISTENT }

\* what is found at a path: no file, a file without the table
\* communication_logs, or a database with the rows of that table
Absent == [exists |-> FALSE, table |-> FALSE, rows |-> <<>>]
NoTable == [exists |-> TRUE, table |-> FALSE, rows |-> <<>>]
Database(rows) == [exists |-> TRUE, table |-> TRUE, rows |-> rows]

\* no file exists
NoFiles == [p \in Paths |-> Absent]

\* the timestamp of the k-th row; as TEXT these compare as k does
Stamp(k) == PyStr(<<"t", <<"1","2","3","4","5","6","7","8","9">>[k]>>)

\* the content column of the rows: TEXT or NULL
RowContents == << PyStr(T_happy), None, PyStr(T_family_discover), PyStr(<<>>) >>

\* the k-th row of communication_logs, as the dict scan_database makes of it
Row(k) ==
    [id        |-> PyInt(k),
     sender    |-> IF k % 2 = 1 THEN FORGE ELSE CLIO,
     content   |-> RowContents[((k - 1) % Len(RowContents)) + 1],
     timestamp |-> Stamp(k)]

Files == { Absent, NoTable } \cup { Database([k \in 1..n |-> Row(k)]) : n \in 0..MaxRows }

Stores == { [p \in Paths |-> IF p = BCH_DB THEN file ELSE Absent] : file \in Files }

\* SELECT id, sender, content, timestamp FROM communication_logs
\* [WHERE sender = ?] ORDER BY timestamp DESC LIMIT ?, over rows held in the
\* order of their timestamps
Select(rows, sender, limit) ==
    LET kept == SelectSeq(rows, LAMBDA row : ~Truthy(sender) \/ row.sender = sender)
        newest == [k \in 1..Len(kept) |-> kept[Len(kept) + 1 - k]]
    IN  IF limit < 0 THEN newest ELSE SubSeq(newest, 1, Min(limit, Len(newest)))

\* analyze_messages raises on these messages
BatchRaises(messages) ==
    \/ Len(messages) = 0
    \/ \E i \in 1..Len(messages) :
        LET content == Get(messages[i], "content", PyStr(<<>>))
        IN  Truthy(content) /\ Rejects(content)

\* scan_database asking the path whether it exists before it asks whether a
\* path is configured
DoScanDatabaseExistsFirst(limit, sender) ==
    /\ out' =
        IF db_path = None
        THEN Raised("scan_database", <<limit, sender>>, "AttributeError")
        ELSE IF ~store[db_path].exists
        THEN Raised("scan_database", <<limit, sender>>, "FileNotFoundError")
        ELSE Raised("scan_database", <<limit, sender>>, "ValueError")
    /\ UNCHANGED <<calls, heap, lock, db_path, store, profiles, now, held>>

\* analyzer.scan_database(limit, sender)
DoScanDatabase(limit, sender) ==
    /\ out' =
        IF ~Truthy(db_path)
        THEN Raised("scan_database", <<limit, sender>>, "ValueError")
        ELSE IF ~store[db_path].exists
        THEN Raised("scan_database", <<limit, sender>>, "FileNotFoundError")
        ELSE IF ~store[db_path].table
        THEN \* cursor.execute on a file without the table
             Raised("scan_database", <<limit, sender>>, "OperationalError")
        ELSE LET messages == Select(store[db_path].rows, sender, limit)
             IN  IF Len(messages) = 0
                 THEN Returned("scan_database", <<limit, sender>>,
                               [status |-> "no_messages",
                                filter |-> [sender |-> sender, limit |-> limit]])
                 ELSE IF BatchRaises(messages)
                 THEN Raised("scan_database", <<limit, sender>>, "ValueError")
                 ELSE Returned("scan_database", <<limit, sender>>, BatchResult(messages, now))
    /\ UNCHANGED <<calls, heap, lock, db_path, store, profiles, now, held>>

ScanLimits == { 0, 1, 100 }
ScanSenders == { None, FORGE, CLIO }

ScanDatabase ==
    \E limit \in ScanLimits, sender \in ScanSenders : DoScanDatabase(limit, sender)

-----------------------------------------------------------------------------
(* EmotionalProfile: what is read back from it *)

\* analysis.get(key, default) on a dict held as a record
DictGet(dict, key, default) == IF key \in DOMAIN dict THEN dict[key] ELSE default

\* EmotionalProfile.get_emotional_arc
get_emotional_arc(profile) ==
    [k \in 1..Len(profile.analyses) |->
        [timestamp         |-> DictGet(profile.analyses[k], "timestamp", unknown),
         dominant_emotion  |-> DictGet(profile.analyses[k], "dominant_emotion", "UNKNOWN"),
         overall_intensity |-> DictGet(profile.analyses[k], "overall_intensity", 0),
         dimension_scores  |-> DictGet(profile.analyses[k], "dimension_scores", <<>>)]]

\* the keys of a dict in the order of their first insertion, from the
\* sequence of the keys written to it
InsertionOrder(written) ==
    LET first == { i \in 1..Len(written) : \A h \in 1..(i - 1) : written[h] # written[i] }
    IN  [k \in 1..Cardinality(first) |->
            written[CHOOSE i \in first : Cardinality({ h \in first : h <= i }) = k]]

\* sorted(d.items(), key=lambda x: x[1], reverse=True): a stable sort of the
\* items of a dict, each item a record of its key and its value
SortedItemsDesc(items) ==
    LET Before(i, j) ==
            \/ items[i].value > items[j].value
            \/ items[i].value = items[j].value /\ i < j
        Rank(j) == 1 + Cardinality({ i \in 1..Len(items) : Before(i, j) })
    IN  [k \in 1..Len(items) |-> items[CHOOSE j \in 1..Len(items) : Rank(j) = k]]

\* the dominant emotion each analysis is counted under
Dominants(profile) ==
    [k \in 1..Len(profile.analyses) |->
        DictGet(profile.analyses[k], "dominant_emotion", "UNKNOWN")]

\* the frequencies dict, in insertion order
Frequencies(profile) ==
    LET dominants == Dominants(profile)
        keys == InsertionOrder(dominants)
    IN  [k \in 1..Len(keys) |->
            [key |-> keys[k],
             value |-> Cardinality({ i \in 1..Len(dominants) : dominants[i] = keys[k] })]]

\* get_dominant_patterns returning the frequencies as they were inserted
get_dominant_patterns_unsorted(profile) == Frequencies(profile)

\* EmotionalProfile.get_dominant_patterns
get_dominant_patterns(profile) == SortedItemsDesc(Frequencies(profile))

\* analysis.get("dimension_scores", {}) of the k-th analysis
ScoresOf(profile, k) == DictGet(profile.analyses[k], "dimension_scores", <<>>)

\* the keys of a dimension_scores dict as .items() yields them: the dicts
\* used here are written in the order of the registry
ItemKeys(scores) == SelectSeq(DimOrder, LAMBDA d : d \in DOMAIN scores)

\* the keys of totals, in insertion order
TotalsKeys(profile) ==
    InsertionOrder(Concat([k \in 1..Len(profile.analyses) |-> ItemKeys(ScoresOf(profile, k))]))

\* the analyses whose dimension_scores hold dim
Holding(profile, dim) ==
    { k \in 1..Len(profile.analyses) : dim \in DOMAIN ScoresOf(profile, k) }

RECURSIVE TotalOver(_, _, _)
\* totals[dim] summed over the analyses ks
TotalOver(profile, dim, ks) ==
    IF ks = {} THEN 0
    ELSE LET k == CHOOSE x \in ks : TRUE
         IN  ScoresOf(profile, k)[dim] + TotalOver(profile, dim, ks \ {k})

\* get_average_profile dividing every total by the number of analyses
get_average_profile_over_all(profile) ==
    LET keys == TotalsKeys(profile)
    IN  SortedItemsDesc(
            [k \in 1..Len(keys) |->
                [key |-> keys[k],
                 value |-> RoundHalfEven(TotalOver(profile, keys[k], Holding(profile, keys[k])),
                                         Len(profile.analyses))]])

\* EmotionalProfile.get_average_profile
get_average_profile(profile) ==
    IF Len(profile.analyses) = 0 THEN <<>>
    ELSE LET keys == TotalsKeys(profile)
         IN  SortedItemsDesc(
                 [k \in 1..Len(keys) |->
                     [key |-> keys[k],
                      value |-> RoundHalfEven(
                                    TotalOver(profile, keys[k], Holding(profile, keys[k])),
                                    Cardinality(Holding(profile, keys[k])))]])

\* the read operations of the profile of an agent: get_emotional_arc,
\* get_dominant_patterns, get_average_profile
ReadProfile ==
    \E agent_name \in DOMAIN profiles :
        /\ \/ out' = Returned("get_emotional_arc", <<agent_name>>,
                              get_emotional_arc(profiles[agent_name]))
           \/ out' = Returned("get_dominant_patterns", <<agent_name>>,
                              get_dominant_patterns(profiles[agent_name]))
           \/ out' = Returned("get_average_profile", <<agent_name>>,
                              get_average_profile(profiles[agent_name]))
        /\ UNCHANGED <<calls, heap, lock, db_path, store, profiles, now, held>>

-----------------------------------------------------------------------------
(* The analyzer: construction and the calls made on it *)

Init ==
    /\ profiles = <<>>
    /\ now = 0
    /\ held = None
    /\ calls = <<>>
    /\ heap = <<>>
    /\ lock = NoLock
    /\ db_path = None
    /\ store = NoFiles
    /\ out = Returned("__init__", <<>>, None)

Next ==
    \/ Tick
    \/ Analyze
    \/ AnalyzeMessages
    \/ AddToProfile
    \/ GetProfile

Spec == Init /\ [][Next]_vars

-----------------------------------------------------------------------------
(* Scoring alone: one call, its input drawn from the texts above *)

ProbeValues == 0..(MaxProbe * 100)

InitScore ==
    /\ profiles = <<>>
    /\ now = 0
    /\ held = None
    /\ calls = <<>>
    /\ heap = <<>>
    /\ lock = NoLock
    /\ db_path = None
    /\ store = NoFiles
    /\ out \in { Pending("analyze", <<text, context>>) :
                    text \in Texts \cup NonTexts, context \in Contexts }
            \cup { Pending("_get_intensity_level", <<x>>) : x \in ProbeValues }

ScoreAnalyze ==
    /\ out.raised = "pending"
    /\ out.op = "analyze"
    /\ DoAnalyze(out.args[1], out.args[2])

\* analyzer._get_intensity_level(intensity)
ScoreLevel ==
    /\ out.raised = "pending"
    /\ out.op = "_get_intensity_level"
    /\ out' = Returned(out.op, out.args, get_intensity_level(out.args[1]))
    /\ UNCHANGED <<calls, heap, lock, db_path, store, profiles, now, held>>

NextScore == ScoreAnalyze \/ ScoreLevel

SpecScore == InitScore /\ [][NextScore]_vars

-----------------------------------------------------------------------------
(* analyze_messages alone: one call, its input drawn from the batches below *)

T1 == PyStr(<<"t","1">>)
T2 == PyStr(<<"t","2">>)

\* a message dict; Missing stands for a key the dict does not hold
Message(content, sender, timestamp) ==
    [content |-> content, sender |-> sender, timestamp |-> timestamp]

BatchMessages ==
    { Message(PyStr(T_happy), FORGE, T1),
      Message(PyStr(T_family_discover), CLIO, T2),
      Message(PyStr(T_very_aware_aware), FORGE, Missing),
      Message(PyStr(T_four), Missing, Missing),
      Message(PyStr(<<>>), CLIO, T2),
      Message(Missing, FORGE, T1),
      Message(PyInt(123), CLIO, T1) }

Batches == UNION { [1..k -> BatchMessages] : k \in 0..MaxBatch }

InitBatch ==
    /\ profiles = <<>>
    /\ now = 0
    /\ held = None
    /\ calls = <<>>
    /\ heap = <<>>
    /\ lock = NoLock
    /\ db_path = None
    /\ store = NoFiles
    /\ out \in { Pending("analyze_messages", <<messages>>) : messages \in Batches }

BatchAnalyze ==
    /\ out.raised = "pending"
    /\ out.op = "analyze_messages"
    /\ DoAnalyzeMessages(out.args[1])

NextBatch == BatchAnalyze

SpecBatch == InitBatch /\ [][NextBatch]_vars

-----------------------------------------------------------------------------
(* EmotionalProfile alone: one profile, analyses added to it and read back *)

\* the dicts handed to add_analysis at clock value t: three Analyses and a
\* dict that holds one key only
ProfileAnalyses(t) ==
    { Analysis(PyStr(T_happy), None, t),
      Analysis(PyStr(T_family_discover), FORGE, t),
      Analysis(PyStr(T_four), None, t),
      [dominant_emotion |-> "JOY"] }

InitProfile ==
    /\ profiles = [a \in {"FORGE"} |-> NewProfile("FORGE", 0)]
    /\ now = 0
    /\ held = None
    /\ calls = <<>>
    /\ heap = <<>>
    /\ lock = NoLock
    /\ db_path = None
    /\ store = NoFiles
    /\ out = Returned("__init__", <<"FORGE">>, None)

\* profile.add_analysis(analysis)
ProfileAdd ==
    \E analysis \in ProfileAnalyses(now) :
        /\ Len(profiles["FORGE"].analyses) < MaxAnalyses
        /\ profiles' = [profiles EXCEPT !["FORGE"] = add_analysis(@, analysis, now)]
        /\ out' = Returned("add_analysis", <<analysis>>, None)
        /\ UNCHANGED <<calls, heap, lock, db_path, store, now, held>>

\* get_emotional_arc handing the analyses over once, as a stream would
ProfileArcConsuming ==
    /\ out' = Returned("get_emotional_arc", <<>>, get_emotional_arc(profiles["FORGE"]))
    /\ profiles' = [profiles EXCEPT !["FORGE"].analyses = <<>>]
    /\ UNCHANGED <<calls, heap, lock, db_path, store, now, held>>

\* profile.get_emotional_arc()
ProfileArc ==
    /\ out' = Returned("get_emotional_arc", <<>>, get_emotional_arc(profiles["FORGE"]))
    /\ UNCHANGED <<calls, heap, lock, db_path, store, profiles, now, held>>

NextProfile ==
    \/ Tick
    \/ ProfileAdd
    \/ ProfileArc

SpecProfile == InitProfile /\ [][NextProfile]_vars

-----------------------------------------------------------------------------
(* EmotionalProfile read back: get_dominant_patterns and get_average_profile *)

\* the dicts of the tests of EmotionalProfile, and Analyses
D_JOY == [dominant_emotion |-> "JOY"]
D_PEACE == [dominant_emotion |-> "PEACE"]
D_WARMTH == [dominant_emotion |-> "WARMTH"]
S_4_2 == [dimension_scores |-> ("WARMTH" :> 200 @@ "JOY" :> 400)]
S_6_4 == [dimension_scores |-> ("WARMTH" :> 400 @@ "JOY" :> 600)]
S_PEACE == [dimension_scores |-> ("PEACE" :> 401)]

RecordedDicts ==
    { D_JOY, D_PEACE, D_WARMTH, S_4_2, S_6_4, S_PEACE,
      Analysis(PyStr(T_happy), None, 0),
      Analysis(PyStr(T_family_discover), FORGE, 0) }

GeneratedLists == UNION { [1..k -> RecordedDicts] : k \in 0..MaxRecorded }

ExampleLists ==
    { <<D_JOY, D_JOY, D_JOY, D_PEACE, D_PEACE, D_WARMTH>>,
      <<D_WARMTH, D_PEACE, D_JOY, D_PEACE, D_JOY, D_JOY>>,
      <<S_PEACE, S_4_2, S_PEACE, S_6_4, S_PEACE>> }

RecordedLists == GeneratedLists \cup ExampleLists

\* a profile after its analyses were added one by one
InitRead ==
    /\ profiles \in { [a \in {"FORGE"} |->
                          [NewProfile("FORGE", 0) EXCEPT !.analyses = list] ] :
                      list \in RecordedLists }
    /\ now = 0
    /\ held = None
    /\ calls = <<>>
    /\ heap = <<>>
    /\ lock = NoLock
    /\ db_path = None
    /\ store = NoFiles
    /\ out = Returned("add_analysis", <<>>, None)

\* profile.get_dominant_patterns()
ReadPatterns ==
    /\ out' = Returned("get_dominant_patterns", <<>>, get_dominant_patterns(profiles["FORGE"]))
    /\ UNCHANGED <<calls, heap, lock, db_path, store, profiles, now, held>>

\* profile.get_average_profile()
ReadAverage ==
    /\ out' = Returned("get_average_profile", <<>>, get_average_profile(profiles["FORGE"]))
    /\ UNCHANGED <<calls, heap, lock, db_path, store, profiles, now, held>>

\* profile.to_dict()
ReadDict ==
    /\ out' = Returned("to_dict", <<>>,
                [agent_name        |-> profiles["FORGE"].agent_name,
                 created_at        |-> profiles["FORGE"].created_at,
                 last_updated      |-> profiles["FORGE"].last_updated,
                 total_analyses    |-> Len(profiles["FORGE"].analyses),
                 dominant_patterns |-> get_dominant_patterns(profiles["FORGE"]),
                 average_profile   |-> get_average_profile(profiles["FORGE"]),
                 emotional_arc     |-> get_emotional_arc(profiles["FORGE"])])
    /\ UNCHANGED <<calls, heap, lock, db_path, store, profiles, now, held>>

NextRead ==
    \/ ReadPatterns
    \/ ReadAverage
    \/ ReadDict

SpecRead == InitRead /\ [][NextRead]_vars

-----------------------------------------------------------------------------
(* The profile tracker: the calls of the analyzer with the read operations *)
(* of the profiles it holds                                                *)

TrackerCalls == { <<PyStr(T_happy), None>>, <<PyStr(T_family_discover), FORGE>>, <<None, None>> }

TrackerAnalyze ==
    \E call \in TrackerCalls : DoAnalyze(call[1], call[2])

NextTracker ==
    \/ Tick
    \/ TrackerAnalyze
    \/ AnalyzeMessages
    \/ AddToProfile
    \/ GetProfile
    \/ ReadProfile

SpecTracker == Init /\ [][NextTracker]_vars

-----------------------------------------------------------------------------
(* The analyzer over a store: constructed with or without a path, the file *)
(* at the path absent or present                                           *)

InitScan ==
    /\ profiles = <<>>
    /\ now = 0
    /\ held = None
    /\ calls = <<>>
    /\ heap = <<>>
    /\ lock = NoLock
    /\ out = Returned("__init__", <<>>, None)
    /\ db_path \in { None, BCH_DB, NONEXISTENT }
    /\ store \in Stores

NextScan ==
    \/ TrackerAnalyze
    \/ AnalyzeMessages
    \/ AddToProfile
    \/ GetProfile
    \/ ScanDatabase

SpecScan == InitScan /\ [][NextScan]_vars

-----------------------------------------------------------------------------
(* add_to_profile called from the threads of a host.  Here self.profiles  *)
(* holds references: profiles[agent] is the identity of an object of heap. *)
(* A thread is switched between two statements, and inside line 589       *)
(* between the lookup of the profile and the call of add_analysis.        *)

Threads == 1..MaxThreads

\* the analysis thread t hands over
ThreadAnalyses == << Analysis(PyStr(T_happy), None, 0),
                     Analysis(PyStr(T_family_discover), FORGE, 0),
                     Analysis(PyStr(T_four), None, 0) >>

ArgumentOf(t) == ThreadAnalyses[((t - 1) % Len(ThreadAnalyses)) + 1]

\* thread t at position pc of add_to_profile(agent_name, analysis), ref the
\* profile it has looked up
Frame(pc, agent_name, analysis, ref) ==
    [pc |-> pc, agent_name |-> agent_name, analysis |-> analysis, ref |-> ref]

InitThreads ==
    /\ profiles = <<>>
    /\ now = 0
    /\ held = None
    /\ out = Returned("__init__", <<>>, None)
    /\ db_path = None
    /\ store = NoFiles
    /\ calls \in { [t \in Threads |-> Frame("call", agent_of[t], ArgumentOf(t), 0)] :
                      agent_of \in [Threads -> Agents] }
    /\ heap = <<>>
    /\ lock \in { NoLock, Free }

\* the thread enters add_to_profile without looking at the lock of the host
EnterWithoutLock(t) ==
    /\ calls[t].pc = "call"
    /\ calls' = [calls EXCEPT ![t].pc = "check"]
    /\ UNCHANGED <<profiles, now, held, out, db_path, store, heap, lock>>

\* the thread enters add_to_profile, after taking the lock when the host
\* has one
Enter(t) ==
    /\ calls[t].pc = "call"
    /\ lock \in { NoLock, Free }
    /\ lock' = IF lock = NoLock THEN NoLock ELSE t
    /\ calls' = [calls EXCEPT ![t].pc = "check"]
    /\ UNCHANGED <<profiles, now, held, out, db_path, store, heap>>

\* if agent_name not in self.profiles:
Check(t) ==
    /\ calls[t].pc = "check"
    /\ calls' = [calls EXCEPT ![t].pc =
                    IF calls[t].agent_name \in DOMAIN profiles THEN "lookup" ELSE "create"]
    /\ UNCHANGED <<profiles, now, held, out, db_path, store, heap, lock>>

\* self.profiles[agent_name] = EmotionalProfile(agent_name)
Create(t) ==
    /\ calls[t].pc = "create"
    /\ heap' = Append(heap, NewProfile(calls[t].agent_name, now))
    /\ profiles' = [a \in DOMAIN profiles \cup {calls[t].agent_name} |->
                      IF a = calls[t].agent_name THEN Len(heap) + 1 ELSE profiles[a]]
    /\ calls' = [calls EXCEPT ![t].pc = "lookup"]
    /\ UNCHANGED <<now, held, out, db_path, store, lock>>

\* self.profiles[agent_name] of line 589
Lookup(t) ==
    /\ calls[t].pc = "lookup"
    /\ calls' = [calls EXCEPT ![t].pc = "add_analysis", ![t].ref = profiles[calls[t].agent_name]]
    /\ UNCHANGED <<profiles, now, held, out, db_path, store, heap, lock>>

\* .add_analysis(analysis) on the profile looked up
AddAnalysis(t) ==
    /\ calls[t].pc = "add_analysis"
    /\ heap' = [heap EXCEPT ![calls[t].ref] = add_analysis(@, calls[t].analysis, now)]
    /\ calls' = [calls EXCEPT ![t].pc = "return"]
    /\ UNCHANGED <<profiles, now, held, out, db_path, store, lock>>

\* return self.profiles[agent_name], and the host's lock is given back
Return(t) ==
    /\ calls[t].pc = "return"
    /\ out' = Returned("add_to_profile", <<calls[t].agent_name>>, profiles[calls[t].agent_name])
    /\ lock' = IF lock = NoLock THEN NoLock ELSE Free
    /\ calls' = [calls EXCEPT ![t].pc = "done"]
    /\ UNCHANGED <<profiles, now, held, db_path, store, heap>>

NextThreads ==
    \E t \in Threads :
        \/ Enter(t)
        \/ Check(t)
        \/ Create(t)
        \/ Lookup(t)
        \/ AddAnalysis(t)
        \/ Return(t)

SpecThreads == InitThreads /\ [][NextThreads]_vars

-----------------------------------------------------------------------------
(* Properties *)

\* an analyze call has returned its Analysis in this state
AnalyzeReturned == out.op = "analyze" /\ out.raised = "none"

\* C1: for every text analyze accepts, dimension_scores has exactly the ten
\* registry dimensions as keys and every score is a number >= 0, whatever
\* the match counts, the word count and the amplifier and diminisher counts.
TenNonNegativeScores ==
    AnalyzeReturned =>
        /\ DOMAIN out.value.dimension_scores = Dims
        /\ Cardinality(DOMAIN out.value.dimension_scores) = 10
        /\ \A d \in Dims : out.value.dimension_scores[d] \in Nat

\* C1 witness: a text of sixteen words with fifteen diminishers and one JOY
\* match has been scored; the modifier sits at its floor and JOY is positive.
TenNonNegativeScoresWitness ==
    /\ AnalyzeReturned
    /\ out.args[1] = PyStr(T_maybe15 \o T_happy)
    /\ out.value.word_count = 16
    /\ out.value.intensity_modifier = 50
    /\ out.value.dimension_scores["JOY"] > 0

\* the text of an analyze call is one the guard must refuse
InvalidText(text) == text = PyStr(<<>>) \/ ~IsStr(text)

\* C2: analyze raises ValueError for the empty string, None and every value
\* that is no string, analyze_messages raises it for an empty sequence; such
\* a call produces no Analysis and no BatchResult and leaves the profiles
\* as they were.
InvalidInputRaises ==
    /\ [](/\ (out.op = "analyze" /\ InvalidText(out.args[1])) =>
                (out.raised = "ValueError" /\ out.value = None)
          /\ (out.op = "analyze_messages" /\ out.args[1] = <<>>) =>
                (out.raised = "ValueError" /\ out.value = None))
    /\ [][(/\ out' # out
           /\ \/ out'.op = "analyze" /\ InvalidText(out'.args[1])
              \/ out'.op = "analyze_messages" /\ out'.args[1] = <<>>)
          => (profiles' = profiles /\ held' = held)]_vars

\* C2 witness: analyze(123) has raised ValueError on an analyzer that
\* already holds a profile with a recorded Analysis.
InvalidInputRaisesWitness ==
    /\ out = Raised("analyze", <<PyInt(123), None>>, "ValueError")
    /\ \E a \in DOMAIN profiles : Len(profiles[a].analyses) > 0

\* the total number of matches of all the patterns of dimension d in text
MatchTotal(d, text) == CountAll(compiled_patterns[d], text)

\* the weight of dimension d
WeightOf(d) == IF d = "RECOGNITION" THEN 120 ELSE 100

\* C3: for an accepted text with word_count > 0, the score of every
\* dimension d is round(round(matches_d * weight_d / word_count * 100, 2) *
\* modifier, 2), matches_d counting every match of every pattern of d,
\* weight_d being 1.2 for RECOGNITION and 1.0 otherwise, and modifier being
\* the clamped intensity modifier; no other dimension enters the score of d.
ScoreFormula ==
    (AnalyzeReturned /\ out.value.word_count > 0) =>
        /\ out.value.intensity_modifier = calculate_intensity_modifier(out.args[1])
        /\ \A d \in Dims :
              out.value.dimension_scores[d] =
                  RoundHalfEven(
                      RoundHalfEven(MatchTotal(d, out.args[1]) * WeightOf(d) * 100,
                                    out.value.word_count)
                      * out.value.intensity_modifier, 100)

\* C3 witness: "very aware aware" has been scored: RECOGNITION matched twice
\* with one distinct string, three words, modifier 1.1, score 88.0.
ScoreFormulaWitness ==
    /\ AnalyzeReturned
    /\ out.args[1] = PyStr(T_very_aware_aware)
    /\ out.value.word_count = 3
    /\ MatchTotal("RECOGNITION", out.args[1]) = 2
    /\ Cardinality(out.value.dimension_matches["RECOGNITION"]) = 1
    /\ out.value.intensity_modifier = 110
    /\ out.value.dimension_scores["RECOGNITION"] = 8800

\* C4: with A amplifier matches and D diminisher matches the modifier is
\* 1.0 + 0.1*A - 0.1*D clamped to [0.5, 2.0]: never below 0.5, never above
\* 2.0, exactly 2.0 when A >= 15 and D = 0, exactly 0.5 when D >= 15 and
\* A = 0.
ModifierClamped ==
    AnalyzeReturned =>
        LET A == CountAll(amplifiers, out.args[1])
            D == CountAll(diminishers, out.args[1])
            unclamped == 100 + 10 * A - 10 * D
            modifier == out.value.intensity_modifier
        IN  /\ modifier >= 50
            /\ modifier <= 200
            /\ modifier = (IF unclamped < 50 THEN 50
                           ELSE IF unclamped > 200 THEN 200 ELSE unclamped)
            /\ (A >= 15 /\ D = 0) => modifier = 200
            /\ (D >= 15 /\ A = 0) => modifier = 50

\* C4 witness: a text with fifteen amplifiers and no diminisher has been
\* scored with the modifier 2.0.
ModifierClampedWitness ==
    /\ AnalyzeReturned
    /\ out.args[1] = PyStr(T_very15 \o T_happy)
    /\ CountAll(amplifiers, out.args[1]) = 15
    /\ CountAll(diminishers, out.args[1]) = 0
    /\ out.value.intensity_modifier = 200

\* the text with one more word put in front of it
WithWord(word, text) == [text EXCEPT !.s = word \o <<" ">> \o @]

\* text with one more amplifier match and the same diminisher matches
OneMoreAmplifier(text) == WithWord(<<"v","e","r","y">>, text)

\* text with one more diminisher match and the same amplifier matches
OneMoreDiminisher(text) == WithWord(<<"m","a","y","b","e">>, text)

\* the added word is one more match of its kind and none of the other kind
AddsOneMatch(text) ==
    /\ CountAll(amplifiers, OneMoreAmplifier(text)) = CountAll(amplifiers, text) + 1
    /\ CountAll(diminishers, OneMoreAmplifier(text)) = CountAll(diminishers, text)
    /\ CountAll(diminishers, OneMoreDiminisher(text)) = CountAll(diminishers, text) + 1
    /\ CountAll(amplifiers, OneMoreDiminisher(text)) = CountAll(amplifiers, text)

\* "I am extremely happy." and "I am slightly happy." against "I am happy."
ExamplesOrdered ==
    /\ calculate_intensity_modifier(PyStr(T_extremely)) >
           calculate_intensity_modifier(PyStr(T_I_am_happy_dot))
    /\ calculate_intensity_modifier(PyStr(T_slightly)) <
           calculate_intensity_modifier(PyStr(T_I_am_happy_dot))

\* C5 as stated: one more amplifier match yields a strictly greater
\* intensity_modifier and one more diminisher match a strictly smaller one,
\* for any text.
ModifierStrictlyMonotone ==
    (AnalyzeReturned /\ AddsOneMatch(out.args[1])) =>
        /\ calculate_intensity_modifier(OneMoreAmplifier(out.args[1])) >
               out.value.intensity_modifier
        /\ calculate_intensity_modifier(OneMoreDiminisher(out.args[1])) <
               out.value.intensity_modifier
        /\ ExamplesOrdered

\* C5 amended: one more amplifier match never lowers the intensity_modifier
\* and raises it exactly when 0.5 <= 1.0 + 0.1*A - 0.1*D < 2.0; one more
\* diminisher match never raises it and lowers it exactly when
\* 0.5 < 1.0 + 0.1*A - 0.1*D <= 2.0; the three example sentences are
\* ordered as stated.
ModifierMonotone ==
    (AnalyzeReturned /\ AddsOneMatch(out.args[1])) =>
        LET unclamped == 100 + 10 * CountAll(amplifiers, out.args[1])
                             - 10 * CountAll(diminishers, out.args[1])
            modifier == out.value.intensity_modifier
            amplified == calculate_intensity_modifier(OneMoreAmplifier(out.args[1]))
            diminished == calculate_intensity_modifier(OneMoreDiminisher(out.args[1]))
        IN  /\ amplified >= modifier
            /\ (amplified > modifier) <=> (50 <= unclamped /\ unclamped < 200)
            /\ diminished <= modifier
            /\ (diminished < modifier) <=> (50 < unclamped /\ unclamped <= 200)
            /\ ExamplesOrdered

\* C5 witness: a text with fifteen amplifiers has been scored with the
\* modifier 2.0, and with a sixteenth amplifier its modifier is 2.0 again.
ModifierMonotoneWitness ==
    /\ AnalyzeReturned
    /\ out.args[1] = PyStr(T_very15 \o T_happy)
    /\ AddsOneMatch(out.args[1])
    /\ out.value.intensity_modifier = 200
    /\ calculate_intensity_modifier(OneMoreAmplifier(out.args[1])) = 200

\* C6: dominant_emotion holds the greatest of the ten adjusted scores and is
\* the first such dimension in registry order; a text without any match has
\* dominant_emotion WARMTH and dominant_score 0; dominant_score is
\* dimension_scores[dominant_emotion].
DominantIsFirstMax ==
    AnalyzeReturned =>
        LET scores == out.value.dimension_scores
            dominant == out.value.dominant_emotion
        IN  /\ DimOrder = <<"WARMTH", "RESONANCE", "LONGING", "FEAR", "PEACE", "RECOGNITION",
                            "BELONGING", "JOY", "CURIOSITY", "DETERMINATION">>
            /\ dominant \in Dims
            /\ \A d \in Dims : scores[d] <= scores[dominant]
            /\ \A i, j \in 1..Len(DimOrder) :
                  (DimOrder[j] = dominant /\ i < j) => scores[DimOrder[i]] < scores[dominant]
            /\ out.value.dominant_score = scores[dominant]
            /\ (\A d \in Dims : MatchTotal(d, out.args[1]) = 0) =>
                  (dominant = "WARMTH" /\ out.value.dominant_score = 0)

\* C6 witness: "afraid harmony ease must" has been scored: FEAR, RESONANCE,
\* PEACE and DETERMINATION share the greatest score and RESONANCE, the first
\* of them in registry order though not in the text, is dominant.
DominantIsFirstMaxWitness ==
    /\ AnalyzeReturned
    /\ out.args[1] = PyStr(T_four)
    /\ out.value.dominant_emotion = "RESONANCE"
    /\ out.value.dominant_score > 0
    /\ \A d \in {"FEAR", "PEACE", "DETERMINATION"} :
          out.value.dimension_scores[d] = out.value.dominant_score

\* the band of an intensity: lower end inclusive, upper end exclusive
Band(intensity) ==
    CASE intensity < 100 -> "subtle"
      [] 100 <= intensity /\ intensity < 300 -> "moderate"
      [] 300 <= intensity /\ intensity < 600 -> "strong"
      [] 600 <= intensity -> "intense"

\* C7: overall_intensity is the mean of the ten adjusted scores rounded to
\* two decimals; intensity_level is a total function of the intensity:
\* subtle below 1.0, moderate from 1.0 to below 3.0, strong from 3.0 to
\* below 6.0, intense from 6.0 on, so that 0.99, 1.0, 2.99, 3.0, 5.99, 6.0
\* give subtle, moderate, moderate, strong, strong, intense.
OverallAndLevel ==
    /\ AnalyzeReturned =>
          /\ out.value.overall_intensity =
                 RoundHalfEven(SumOver(out.value.dimension_scores, DimOrder), 10)
          /\ out.value.intensity_level = Band(out.value.overall_intensity)
    /\ (out.op = "_get_intensity_level" /\ out.raised # "pending") =>
          /\ out.raised = "none"
          /\ out.value = Band(out.args[1])
          /\ out.args[1] = 99 => out.value = "subtle"
          /\ out.args[1] = 100 => out.value = "moderate"
          /\ out.args[1] = 299 => out.value = "moderate"
          /\ out.args[1] = 300 => out.value = "strong"
          /\ out.args[1] = 599 => out.value = "strong"
          /\ out.args[1] = 600 => out.value = "intense"

\* C7 witness: the level of the intensity 3.0, the lower end of a band, has
\* been computed and is strong.
OverallAndLevelWitness ==
    out = Returned("_get_intensity_level", <<300>>, "strong")

\* the place of dimension d in the descending order of the scores, equal
\* scores in registry order
RankOf(scores, d) ==
    1 + Cardinality({ e \in Dims :
            \/ scores[e] > scores[d]
            \/ /\ scores[e] = scores[d]
               /\ \E i, j \in 1..Len(DimOrder) : i < j /\ DimOrder[i] = e /\ DimOrder[j] = d })

\* C8: emotional_signature lists at most three dimensions: the three of the
\* highest adjusted scores, in descending order with registry order
\* breaking ties, without those whose score is <= 0, each as DIM:score; it
\* is empty exactly when all ten scores are 0, and a dimension ranked fourth
\* or lower never appears, whatever its score.
SignatureTopThree ==
    AnalyzeReturned =>
        LET scores == out.value.dimension_scores
            signature == out.value.emotional_signature
            listed == { signature[k].dim : k \in 1..Len(signature) }
        IN  /\ Len(signature) <= 3
            /\ listed = { d \in Dims : RankOf(scores, d) <= 3 /\ scores[d] > 0 }
            /\ \A k \in 1..Len(signature) : signature[k].score = scores[signature[k].dim]
            /\ \A k, l \in 1..Len(signature) :
                  k < l => RankOf(scores, signature[k].dim) < RankOf(scores, signature[l].dim)
            /\ (signature = <<>>) <=> (\A d \in Dims : scores[d] = 0)
            /\ \A d \in Dims : RankOf(scores, d) >= 4 => d \notin listed

\* C8 witness: "family discover" has been scored: four dimensions are
\* positive, the signature lists RECOGNITION, WARMTH, BELONGING, and
\* CURIOSITY, ranked fourth with a positive score, is left out.
SignatureTopThreeWitness ==
    /\ AnalyzeReturned
    /\ out.args[1] = PyStr(T_family_discover)
    /\ Cardinality({ d \in Dims : out.value.dimension_scores[d] > 0 }) = 4
    /\ [k \in 1..Len(out.value.emotional_signature) |-> out.value.emotional_signature[k].dim]
           = <<"RECOGNITION", "WARMTH", "BELONGING">>
    /\ out.value.dimension_scores["CURIOSITY"] > 0

\* this step is an analyze call that returns, made with the text and the
\* context of the analyze call that returned last before it
AnalyzedAgain ==
    /\ held # None
    /\ out'.op = "analyze"
    /\ out'.raised = "none"
    /\ held' = [text |-> held.text, context |-> held.context, result |-> out'.value]
    /\ out'.args = <<held.text, held.context>>

\* C9 as stated: two analyze calls on the same text and context, whenever
\* they are made and whatever is called in between, return the same
\* Analysis, every field included.
AnalyzeIdempotent ==
    [][AnalyzedAgain => out'.value = held.result]_vars

\* C9 amended: two analyze calls on the same text and context, whenever
\* they are made and whatever is called in between, return Analyses with
\* the same fields, equal in every field other than timestamp.
AnalyzeIdempotentButTimestamp ==
    [][AnalyzedAgain =>
          /\ DOMAIN out'.value = DOMAIN held.result
          /\ \A f \in DOMAIN held.result \ {"timestamp"} : out'.value[f] = held.result[f]]_vars

\* C9 witness: the Analysis just returned and the recorded Analysis of an
\* earlier call on the same text and context differ in their timestamp and
\* in nothing else.
AnalyzeIdempotentButTimestampWitness ==
    /\ AnalyzeReturned
    /\ held # None
    /\ held.result = out.value
    /\ \E a \in DOMAIN profiles : \E k \in 1..Len(profiles[a].analyses) :
          LET earlier == profiles[a].analyses[k]
          IN  /\ earlier.timestamp < out.value.timestamp
              /\ earlier.text_length = StrLen(held.text)
              /\ \A f \in DOMAIN earlier \ {"timestamp"} : earlier[f] = out.value[f]

\* the texts that differ from text in the case of letters only: all upper,
\* all lower, and alternating
CaseVariants(text) ==
    { [text EXCEPT !.s = StrUpper(@)], [text EXCEPT !.s = StrLower(@)],
      [text EXCEPT !.s = StrMixed(@)] }

\* C10: two texts that differ only in letter case get equal
\* dimension_scores in all ten dimensions and equal intensity_modifier;
\* "i am happy", "I AM HAPPY" and "I aM HaPpY" have the same JOY score, and
\* it is > 0.
CaseInsensitive ==
    /\ AnalyzeReturned =>
          \A variant \in CaseVariants(out.args[1]) :
              /\ Scoring(variant).dimension_scores = out.value.dimension_scores
              /\ Scoring(variant).intensity_modifier = out.value.intensity_modifier
    /\ (AnalyzeReturned /\ out.args[1] \in
            { PyStr(T_i_am_happy), PyStr(T_I_AM_HAPPY), PyStr(T_I_aM_HaPpY) }) =>
          /\ out.value.dimension_scores["JOY"] > 0
          /\ out.value.dimension_scores["JOY"] = Scored[PyStr(T_i_am_happy)].dimension_scores["JOY"]

\* C10 witness: "I aM HaPpY" has been scored with the positive JOY score of
\* "I AM HAPPY".
CaseInsensitiveWitness ==
    /\ AnalyzeReturned
    /\ out.args[1] = PyStr(T_I_aM_HaPpY)
    /\ out.value.dimension_scores["JOY"] > 0
    /\ out.value.dimension_scores["JOY"] = Scored[PyStr(T_I_AM_HAPPY)].dimension_scores["JOY"]

\* the whitespace-delimited tokens of text, counted at their last character
TokenCount(text) ==
    Cardinality({ i \in 1..Len(text.s) :
        /\ text.s[i] \notin Whitespace
        /\ (i = Len(text.s) \/ text.s[i + 1] \in Whitespace) }) + text.pad

\* the characters of text
CharCount(text) == Len(text.s) + Len(PadWord) * text.pad

\* word_count and text_length of every Analysis are the tokens and the
\* characters of its text
CountsOfText ==
    AnalyzeReturned =>
        /\ out.value.word_count = TokenCount(out.args[1])
        /\ out.value.text_length = CharCount(out.args[1])

\* C11 as stated: word_count is the number of whitespace-delimited tokens
\* and text_length the number of characters of the text; "One two three
\* four five" has word_count 5 and text_length 25.
WordCountAndLength ==
    /\ CountsOfText
    /\ (AnalyzeReturned /\ out.args[1] = PyStr(T_five)) =>
          (out.value.word_count = 5 /\ out.value.text_length = 25)

\* C11 amended: word_count is the number of whitespace-delimited tokens and
\* text_length the number of characters of the text; "One two three four
\* five" has word_count 5 and text_length 23.
WordCountAndLengthOfFive ==
    /\ CountsOfText
    /\ (AnalyzeReturned /\ out.args[1] = PyStr(T_five)) =>
          (out.value.word_count = 5 /\ out.value.text_length = 23)

\* C11 witness: "One two three four five" has been analyzed, with five
\* words in twenty-three characters.
WordCountAndLengthOfFiveWitness ==
    /\ AnalyzeReturned
    /\ out.args[1] = PyStr(T_five)
    /\ out.value.word_count = 5
    /\ out.value.text_length = 23

\* text holds whitespace and nothing else
Blank(text) == text.pad = 0 /\ \A i \in 1..Len(text.s) : text.s[i] \in Whitespace

\* C12 as stated: every text that analyze accepts holds a token, so that
\* word_count >= 1 in every Analysis and normalization never meets
\* word_count = 0.
AtLeastOneWord ==
    AnalyzeReturned => out.value.word_count >= 1

\* C12 amended: every text that analyze accepts has a character, and
\* word_count >= 1 exactly when one of them is no whitespace; a text of
\* whitespace only is accepted with word_count 0, and normalization then
\* gives the score 0 in all ten dimensions.
WordCountZeroWhenBlank ==
    AnalyzeReturned =>
        /\ out.value.text_length >= 1
        /\ (out.value.word_count >= 1) <=> ~Blank(out.args[1])
        /\ out.value.word_count = 0 =>
              \A d \in Dims : out.value.dimension_scores[d] = 0

\* C12 witness: the text " " has been analyzed, with word_count 0.
WordCountZeroWhenBlankWitness ==
    /\ AnalyzeReturned
    /\ out.args[1] = PyStr(<<" ">>)
    /\ out.value.word_count = 0
    /\ out.value.text_length = 1

\* an analyze_messages call has returned its BatchResult in this state
BatchReturned == out.op = "analyze_messages" /\ out.raised = "none"

\* the content of the message is missing or the empty string
NoContent(msg) == msg.content = Missing \/ msg.content = PyStr(<<>>)

\* every message of the sequence has no content or a text as its content
ContentsAreTexts(messages) ==
    \A i \in 1..Len(messages) : NoContent(messages[i]) \/ IsStr(messages[i].content)

\* the messages of the sequence that have a content
WithContent(messages) == { i \in 1..Len(messages) : ~NoContent(messages[i]) }

\* C13: analyze_messages on a non-empty sequence skips a message whose
\* content is empty or missing, without an error: total_messages is the
\* length of the sequence, analyzed_messages the number of messages with a
\* content, so that analyzed_messages <= total_messages, equal exactly when
\* no message was skipped.
SkipsWithoutContent ==
    (/\ out.op = "analyze_messages"
     /\ out.raised # "pending"
     /\ out.args[1] # <<>>
     /\ ContentsAreTexts(out.args[1])) =>
        /\ out.raised = "none"
        /\ out.value.total_messages = Len(out.args[1])
        /\ out.value.analyzed_messages = Cardinality(WithContent(out.args[1]))
        /\ out.value.analyzed_messages <= out.value.total_messages
        /\ (out.value.analyzed_messages = out.value.total_messages) <=>
               (\A i \in 1..Len(out.args[1]) : ~NoContent(out.args[1][i]))

\* C13 witness: of three messages, one with an empty content and one
\* without any, one has been analyzed.
SkipsWithoutContentWitness ==
    /\ BatchReturned
    /\ Len(out.args[1]) = 3
    /\ \E i, j \in 1..3 : out.args[1][i].content = Missing /\ out.args[1][j].content = PyStr(<<>>)
    /\ out.value.total_messages = 3
    /\ out.value.analyzed_messages = 1

\* the position in the sequence of its k-th message with a content
NthWithContent(messages, k) ==
    CHOOSE i \in WithContent(messages) :
        Cardinality({ j \in WithContent(messages) : j < i }) = k - 1

\* the sender label of a message
SenderLabel(msg) == IF msg.sender = Missing THEN UNKNOWN ELSE msg.sender

\* C14: emotional_arc has one entry per analyzed message, in the order of
\* these messages in the input sequence; entry k carries the sender, the
\* dominant_emotion and the overall_intensity of the k-th analyzed message,
\* which was scored with its sender label as context.
ArcInInputOrder ==
    BatchReturned =>
        LET messages == out.args[1]
            arc == out.value.emotional_arc
            analyses == out.value.individual_analyses
        IN  /\ Len(arc) = Cardinality(WithContent(messages))
            /\ Len(arc) = out.value.analyzed_messages
            /\ Len(analyses) = Len(arc)
            /\ \A k \in 1..Len(arc) :
                  LET msg == messages[NthWithContent(messages, k)]
                  IN  /\ arc[k].sender = SenderLabel(msg)
                      /\ arc[k].dominant = Scored[msg.content].dominant_emotion
                      /\ arc[k].intensity = Scored[msg.content].overall_intensity
                      /\ analyses[k].context = SenderLabel(msg)
                      /\ analyses[k].dominant_emotion = arc[k].dominant
                      /\ analyses[k].overall_intensity = arc[k].intensity

\* C14 witness: FORGE's "happy", a message without content and CLIO's
\* "family discover" have been analyzed: the arc is FORGE then CLIO, which
\* is neither the order of the sender names nor that of the intensities.
ArcInInputOrderWitness ==
    /\ BatchReturned
    /\ out.args[1] = << Message(PyStr(T_happy), FORGE, T1),
                        Message(PyStr(<<>>), CLIO, T2),
                        Message(PyStr(T_family_discover), CLIO, T2) >>
    /\ out.value.emotional_arc =
           << [sender |-> FORGE, dominant |-> "JOY", intensity |-> 1000],
              [sender |-> CLIO, dominant |-> "RECOGNITION", intensity |-> 2100] >>

RECURSIVE ScoreSum(_, _, _)
\* the sum of the adjusted scores of dimension d over the messages at the
\* positions in S
ScoreSum(messages, S, d) ==
    IF S = {} THEN 0
    ELSE LET i == CHOOSE j \in S : TRUE
         IN  Scored[messages[i].content].dimension_scores[d] + ScoreSum(messages, S \ {i}, d)

\* C15: when a message was analyzed, average_scores has the ten dimensions
\* as its keys and each value is the mean, rounded to two decimals, of the
\* adjusted scores of that dimension over the analyzed messages, each
\* counted once; a skipped message does not enter it.
AveragesAreMeans ==
    (BatchReturned /\ out.value.analyzed_messages >= 1) =>
        LET messages == out.args[1]
            analyzed == WithContent(messages)
        IN  /\ DOMAIN out.value.average_scores = Dims
            /\ Cardinality(DOMAIN out.value.average_scores) = 10
            /\ \A d \in Dims :
                  out.value.average_scores[d] =
                      RoundHalfEven(ScoreSum(messages, analyzed, d), Cardinality(analyzed))

\* C15 witness: "happy" of one word, a message with an empty content and
\* "very aware aware" of three words have been analyzed: JOY averages
\* (100.0 + 0) / 2 and RECOGNITION (0 + 88.0) / 2.
AveragesAreMeansWitness ==
    /\ BatchReturned
    /\ out.args[1] = << Message(PyStr(T_happy), FORGE, T1),
                        Message(PyStr(<<>>), CLIO, T2),
                        Message(PyStr(T_very_aware_aware), FORGE, Missing) >>
    /\ out.value.analyzed_messages = 2
    /\ out.value.average_scores["JOY"] = 5000
    /\ out.value.average_scores["RECOGNITION"] = 4400

\* the first dimension, in registry order, of the highest average
FirstHighest(averages) ==
    CHOOSE d \in Dims :
        /\ \A e \in Dims : averages[e] <= averages[d]
        /\ \A i, j \in 1..Len(DimOrder) :
              (DimOrder[j] = d /\ i < j) => averages[DimOrder[i]] < averages[d]

\* C16 but for the sentinel: dominant_overall is the dimension of the
\* highest average, the first in registry order on a tie; on a non-empty
\* sequence of which no message has a content analyze_messages returns,
\* with average_scores, emotional_arc and by_sender empty.
DominantOverallButSentinel ==
    /\ (BatchReturned /\ out.value.analyzed_messages >= 1) =>
          out.value.dominant_overall = FirstHighest(out.value.average_scores)
    /\ (/\ out.op = "analyze_messages"
        /\ out.raised # "pending"
        /\ out.args[1] # <<>>
        /\ WithContent(out.args[1]) = {}) =>
          /\ out.raised = "none"
          /\ out.value.analyzed_messages = 0
          /\ DOMAIN out.value.average_scores = {}
          /\ out.value.emotional_arc = <<>>
          /\ DOMAIN out.value.by_sender = {}

\* C16 as stated: the above, and dominant_overall is "unknown" when no
\* message was analyzed.
DominantOverallUnknownLower ==
    /\ DominantOverallButSentinel
    /\ (BatchReturned /\ out.value.analyzed_messages = 0) =>
          out.value.dominant_overall = "unknown"

\* C16 amended: the above, and dominant_overall is "UNKNOWN", in capitals,
\* when no message was analyzed.
DominantOverallUnknownUpper ==
    /\ DominantOverallButSentinel
    /\ (BatchReturned /\ out.value.analyzed_messages = 0) =>
          out.value.dominant_overall = "UNKNOWN"

\* C16 witness: two messages, one with an empty content and one without
\* any, have been handed over: nothing was analyzed and dominant_overall is
\* "UNKNOWN".
DominantOverallUnknownUpperWitness ==
    /\ BatchReturned
    /\ out.args[1] = << Message(PyStr(<<>>), CLIO, T2), Message(Missing, FORGE, T1) >>
    /\ out.value.total_messages = 2
    /\ out.value.analyzed_messages = 0
    /\ out.value.dominant_overall = "UNKNOWN"

RECURSIVE IntensitySum(_, _)
\* the sum of the overall intensities of the messages at the positions in S
IntensitySum(messages, S) ==
    IF S = {} THEN 0
    ELSE LET i == CHOOSE j \in S : TRUE
         IN  Scored[messages[i].content].overall_intensity + IntensitySum(messages, S \ {i})

RECURSIVE CountSum(_, _)
\* the sum of the counts of the by_sender entries of the senders in S
CountSum(by_sender, S) ==
    IF S = {} THEN 0
    ELSE LET x == CHOOSE y \in S : TRUE
         IN  by_sender[x].count + CountSum(by_sender, S \ {x})

\* C17: by_sender has one entry per sender label of the analyzed messages,
\* a message without sender counting for "UNKNOWN"; its count is the
\* number of analyzed messages of the sender, its avg_intensity the rounded
\* mean of their overall_intensity, and the counts sum to
\* analyzed_messages.  For FORGE, CLIO, FORGE the counts are 2 and 1 and
\* total_messages = 3 = analyzed_messages.
BySenderStatistics ==
    BatchReturned =>
        LET messages == out.args[1]
            analyzed == WithContent(messages)
            by_sender == out.value.by_sender
            Of(label) == { i \in analyzed : SenderLabel(messages[i]) = label }
        IN  /\ DOMAIN by_sender = { SenderLabel(messages[i]) : i \in analyzed }
            /\ \A label \in DOMAIN by_sender :
                  /\ by_sender[label].count = Cardinality(Of(label))
                  /\ by_sender[label].avg_intensity =
                         RoundHalfEven(IntensitySum(messages, Of(label)), Cardinality(Of(label)))
            /\ CountSum(by_sender, DOMAIN by_sender) = out.value.analyzed_messages
            /\ (/\ Len(messages) = 3
                /\ analyzed = {1, 2, 3}
                /\ messages[1].sender = FORGE
                /\ messages[2].sender = CLIO
                /\ messages[3].sender = FORGE) =>
                  /\ by_sender[FORGE].count = 2
                  /\ by_sender[CLIO].count = 1
                  /\ out.value.total_messages = 3
                  /\ out.value.analyzed_messages = 3

\* C17 witness: messages of FORGE, CLIO and FORGE have been analyzed:
\* FORGE counts 2 with the mean intensity 9.4, CLIO counts 1.
BySenderStatisticsWitness ==
    /\ BatchReturned
    /\ out.args[1] = << Message(PyStr(T_happy), FORGE, T1),
                        Message(PyStr(T_family_discover), CLIO, T2),
                        Message(PyStr(T_very_aware_aware), FORGE, Missing) >>
    /\ out.value.by_sender[FORGE] = [count |-> 2, avg_intensity |-> 940]
    /\ out.value.by_sender[CLIO] = [count |-> 1, avg_intensity |-> 2100]

\* this step is an add_to_profile call
AddedToProfile == out'.op = "add_to_profile" /\ profiles' # profiles

\* C18: add_to_profile(agent, analysis) creates the Profile of the agent
\* exactly when there is none, and appends the analysis as the last one of
\* the Profile, so that the Profile holds the analyses of the calls made
\* for the agent in the order of the calls; last_updated is the time of
\* the latest call and the Profile returned is the stored one.
AddToProfileAppends ==
    /\ [](\A a \in DOMAIN profiles :
              /\ profiles[a].agent_name = a
              /\ Len(profiles[a].analyses) >= 1
              /\ profiles[a].created_at <= profiles[a].last_updated)
    /\ [][AddedToProfile =>
            LET agent == out'.args[1]
                before == IF agent \in DOMAIN profiles THEN profiles[agent].analyses ELSE <<>>
            IN  /\ DOMAIN profiles' = DOMAIN profiles \cup {agent}
                /\ \A a \in DOMAIN profiles \ {agent} : profiles'[a] = profiles[a]
                /\ profiles'[agent].analyses = before \o <<held.result>>
                /\ profiles'[agent].agent_name = agent
                /\ profiles'[agent].created_at =
                       (IF agent \in DOMAIN profiles THEN profiles[agent].created_at ELSE now)
                /\ profiles'[agent].last_updated = now
                /\ out'.raised = "none"
                /\ out'.value = profiles'[agent]]_vars

\* C18 witness: the second add_to_profile call for an agent has returned,
\* later than the first: the Profile holds the two analyses, which differ,
\* in the order of the calls.
AddToProfileAppendsWitness ==
    /\ out.op = "add_to_profile"
    /\ out.value = profiles[out.args[1]]
    /\ Len(out.value.analyses) = 2
    /\ out.value.analyses[2] = held.result
    /\ out.value.analyses[1] # out.value.analyses[2]
    /\ out.value.analyses[1].timestamp < out.value.analyses[2].timestamp
    /\ out.value.created_at < out.value.last_updated
    /\ out.value.last_updated = now

\* C19: get_profile on an agent name never handed to add_to_profile
\* returns None and creates nothing: the profile keys and every stored
\* Profile are as before the lookup, so that a later lookup of the name
\* returns None again.
GetProfileCreatesNothing ==
    /\ [](out.op = "get_profile" =>
              /\ out.raised = "none"
              /\ out.args[1] \notin DOMAIN profiles => out.value = None
              /\ out.args[1] \in DOMAIN profiles => out.value = profiles[out.args[1]])
    /\ [][(out'.op = "get_profile" /\ out' # out) =>
              /\ profiles' = profiles
              /\ DOMAIN profiles' = DOMAIN profiles
              /\ out'.args[1] \notin DOMAIN profiles => out'.value = None]_vars

\* C19 witness: with a Profile stored for FORGE and none for CLIO, the
\* lookup of CLIO has returned None and CLIO has no Profile.
GetProfileCreatesNothingWitness ==
    /\ out = Returned("get_profile", <<"CLIO">>, None)
    /\ "FORGE" \in DOMAIN profiles
    /\ "CLIO" \notin DOMAIN profiles

\* the keys of a snapshot of the arc
SnapshotKeys == {"timestamp", "dominant_emotion", "overall_intensity", "dimension_scores"}

\* C20: get_emotional_arc returns one snapshot per recorded analysis, in
\* insertion order, each with the timestamp, the dominant emotion, the
\* overall intensity and the dimension scores of its analysis; called again
\* with no add_analysis in between it returns the same sequence, and it
\* leaves the stored analyses as they are.
ArcRestartable ==
    /\ [](out.op = "get_emotional_arc" =>
              LET analyses == profiles["FORGE"].analyses
              IN  /\ out.raised = "none"
                  /\ Len(out.value) = Len(analyses)
                  /\ \A k \in 1..Len(analyses) :
                        /\ DOMAIN out.value[k] = SnapshotKeys
                        /\ \A key \in SnapshotKeys \cap DOMAIN analyses[k] :
                              out.value[k][key] = analyses[k][key])
    /\ [][(out'.op = "get_emotional_arc" /\ out' # out) => profiles' = profiles]_vars
    /\ [][(out.op = "get_emotional_arc" /\ out'.op = "get_emotional_arc") =>
              (out'.value = out.value /\ profiles' = profiles)]_vars

\* C20 witness: the arc of a profile with "happy" recorded first and
\* "family discover" recorded later has been returned: two snapshots, JOY
\* then RECOGNITION, and the two analyses are still stored.
ArcRestartableWitness ==
    /\ out.op = "get_emotional_arc"
    /\ Len(out.value) = 2
    /\ Len(profiles["FORGE"].analyses) = 2
    /\ out.value[1].dominant_emotion = "JOY"
    /\ out.value[1].overall_intensity = 1000
    /\ out.value[1].timestamp = 0
    /\ out.value[2].dominant_emotion = "RECOGNITION"
    /\ out.value[2].timestamp = 1
    /\ out.value[2].dimension_scores = profiles["FORGE"].analyses[2].dimension_scores

-----------------------------------------------------------------------------
PatternsReturned == out.op = "get_dominant_patterns" /\ out.raised = "none"

\* the dominant emotion the k-th recorded analysis of FORGE counts under
DominantOf(k) == DictGet(profiles["FORGE"].analyses[k], "dominant_emotion", "UNKNOWN")

\* the recorded analyses of FORGE whose dominant emotion is dim
WithDominant(dim) == { k \in 1..Len(profiles["FORGE"].analyses) : DominantOf(k) = dim }

\* the place where dim was first recorded as a dominant emotion
FirstRecorded(dim) == CHOOSE k \in WithDominant(dim) : \A h \in WithDominant(dim) : k <= h

RECURSIVE ValueSum(_)
ValueSum(items) == IF Len(items) = 0 THEN 0 ELSE Head(items).value + ValueSum(Tail(items))

\* C21: get_dominant_patterns has one entry for each dominant emotion that was
\* recorded, its value the number of recorded analyses with that dominant
\* emotion; the entries are in non-increasing order of count, equal counts in
\* the order they were first recorded; the counts sum to the number of
\* analyses; JOY x3, PEACE x2, WARMTH x1 gives JOY:3, PEACE:2, WARMTH:1.
DominantPatternsCounted ==
    PatternsReturned =>
        LET items == out.value
            analyses == profiles["FORGE"].analyses
        IN  /\ \A i \in DOMAIN items :
                /\ items[i].value = Cardinality(WithDominant(items[i].key))
                /\ items[i].value >= 1
            /\ \A i, j \in DOMAIN items : i # j => items[i].key # items[j].key
            /\ \A k \in DOMAIN analyses : \E i \in DOMAIN items : items[i].key = DominantOf(k)
            /\ \A i, j \in DOMAIN items :
                i < j => \/ items[i].value > items[j].value
                         \/ /\ items[i].value = items[j].value
                            /\ FirstRecorded(items[i].key) < FirstRecorded(items[j].key)
            /\ ValueSum(items) = Len(analyses)
            /\ analyses = <<D_JOY, D_JOY, D_JOY, D_PEACE, D_PEACE, D_WARMTH>> =>
                items = << [key |-> "JOY", value |-> 3],
                           [key |-> "PEACE", value |-> 2],
                           [key |-> "WARMTH", value |-> 1] >>

\* the profile of the example was read, and so was one where the emotion
\* recorded first is not the most frequent
DominantPatternsCountedWitness ==
    /\ PatternsReturned
    /\ profiles["FORGE"].analyses = <<D_WARMTH, D_PEACE, D_JOY, D_PEACE, D_JOY, D_JOY>>
    /\ out.value[1].key = "JOY"

-----------------------------------------------------------------------------
AverageReturned == out.op = "get_average_profile" /\ out.raised = "none"

\* the dimension_scores of the k-th recorded analysis of FORGE
RecordedScores(k) == DictGet(profiles["FORGE"].analyses[k], "dimension_scores", <<>>)

\* the recorded analyses of FORGE that hold a score for dim
WithScore(dim) == { k \in 1..Len(profiles["FORGE"].analyses) : dim \in DOMAIN RecordedScores(k) }

RECURSIVE RecordedTotal(_, _)
\* the sum of the scores of dim over the first n recorded analyses that hold it
RecordedTotal(dim, n) ==
    IF n = 0 THEN 0
    ELSE RecordedTotal(dim, n - 1) + (IF n \in WithScore(dim) THEN RecordedScores(n)[dim] ELSE 0)

\* what get_average_profile returned has one entry for each dimension key of
\* the recorded analyses, in non-increasing order of value; nothing for a
\* profile without analyses; JOY 5.0 and WARMTH 3.0 for the two dicts of the test
AverageProfileShape ==
    LET items == out.value
        analyses == profiles["FORGE"].analyses
    IN  /\ \A i, j \in DOMAIN items : i # j => items[i].key # items[j].key
        /\ { items[i].key : i \in DOMAIN items } =
           UNION { DOMAIN RecordedScores(k) : k \in DOMAIN analyses }
        /\ \A i, j \in DOMAIN items : i < j => items[i].value >= items[j].value
        /\ Len(analyses) = 0 => items = <<>>
        /\ analyses = <<S_4_2, S_6_4>> =>
            items = << [key |-> "JOY", value |-> 500], [key |-> "WARMTH", value |-> 300] >>

\* C22 as stated: each value of get_average_profile is the mean of the
\* dimension's score over the analyses that hold the key
AverageProfileExactMeans ==
    AverageReturned =>
        /\ AverageProfileShape
        /\ \A i \in DOMAIN out.value :
            out.value[i].value * Cardinality(WithScore(out.value[i].key)) =
                RecordedTotal(out.value[i].key, Len(profiles["FORGE"].analyses))

\* C22: each value of get_average_profile is the mean of the dimension's
\* score over exactly the analyses that hold the key, rounded to the nearest
\* hundredth; the entries are in non-increasing order of value; a profile
\* without analyses gives the empty mapping; {JOY:4, WARMTH:2} and
\* {JOY:6, WARMTH:4} give JOY 5.0 and WARMTH 3.0.
AverageProfileRoundedMeans ==
    AverageReturned =>
        /\ AverageProfileShape
        /\ \A i \in DOMAIN out.value :
            LET count == Cardinality(WithScore(out.value[i].key))
                total == RecordedTotal(out.value[i].key, Len(profiles["FORGE"].analyses))
                off == out.value[i].value * count - total
            IN  /\ count >= 1
                /\ 2 * off <= count
                /\ 2 * off >= 0 - count

\* the average of a profile in which PEACE is held by one analysis of two, and
\* whose mean of JOY is no whole number of hundredths
AverageProfileRoundedMeansWitness ==
    /\ AverageReturned
    /\ profiles["FORGE"].analyses = <<S_PEACE, S_4_2, Analysis(PyStr(T_happy), None, 0)>>
    /\ \E i \in DOMAIN out.value : out.value[i] = [key |-> "PEACE", value |-> 200]
    /\ \E i \in DOMAIN out.value : out.value[i] = [key |-> "JOY", value |-> 5200]

-----------------------------------------------------------------------------
\* C23: over every step of the analyzer (analyze, analyze_messages,
\* add_to_profile, get_profile, the read operations of a profile) no agent
\* loses its profile, the analyses a profile held before the step are a
\* prefix of those it holds after it, and a profile changes only in an
\* add_to_profile call for its own agent.
ProfilesAppendOnly ==
    [][ /\ DOMAIN profiles \subseteq DOMAIN profiles'
        /\ \A a \in DOMAIN profiles :
            /\ Len(profiles[a].analyses) <= Len(profiles'[a].analyses)
            /\ SubSeq(profiles'[a].analyses, 1, Len(profiles[a].analyses)) = profiles[a].analyses
            /\ profiles'[a] # profiles[a] =>
                /\ out'.op = "add_to_profile"
                /\ out'.args[1] = a
      ]_vars

\* an analysis was added for CLIO while FORGE had a profile holding one
ProfilesAppendOnlyWitness ==
    /\ out.op = "add_to_profile"
    /\ out.args[1] = "CLIO"
    /\ DOMAIN profiles = {"FORGE", "CLIO"}
    /\ Len(profiles["FORGE"].analyses) = 1
    /\ Len(profiles["CLIO"].analyses) = 1

-----------------------------------------------------------------------------
\* C24: a step in which analyze or analyze_messages is called leaves the
\* profiles mapping with every profile in it and the configured store path
\* as they were (the compiled patterns are assigned in __init__ only and are
\* a constant here), so no Analysis reaches a profile by being scored; and
\* analyze either returns or raises ValueError.
ScoringHasNoSideEffects ==
    [][ /\ out'.op \in {"analyze", "analyze_messages"} =>
            /\ profiles' = profiles
            /\ db_path' = db_path
            /\ store' = store
        /\ out'.op = "analyze" => out'.raised \in {"none", "ValueError"}
      ]_vars

\* analyze returned while FORGE had a profile and a store path was configured
ScoringHasNoSideEffectsWitness ==
    /\ AnalyzeReturned
    /\ "FORGE" \in DOMAIN profiles
    /\ Len(profiles["FORGE"].analyses) = 1
    /\ profiles["FORGE"].analyses[1] # out.value
    /\ db_path = BCH_DB

-----------------------------------------------------------------------------
\* the keys of the record analyze returns
AnalysisFields == DOMAIN Analysis(PyStr(T_happy), None, 0)

\* the Analysis that analyze returned for the k-th message with a content of
\* the latest analyze_messages call
AnalysisOfNth(k) ==
    LET msg == out.args[1][NthWithContent(out.args[1], k)]
    IN  Analysis(msg.content, SenderLabel(msg), out.value.individual_analyses[k].timestamp)

\* no step but a new analyze call changes the Analysis the caller holds, no
\* step changes an Analysis recorded in a profile, and add_to_profile
\* records the Analysis as analyze returned it
AnalysisKeptByCallerAndProfile ==
    [][ /\ (held # None /\ out'.op # "analyze") => held' = held
        /\ \A a \in DOMAIN profiles : \A k \in 1..Len(profiles[a].analyses) :
            /\ a \in DOMAIN profiles'
            /\ k <= Len(profiles'[a].analyses)
            /\ profiles'[a].analyses[k] = profiles[a].analyses[k]
        /\ (out'.op = "add_to_profile" /\ profiles' # profiles) =>
            LET analyses == profiles'[out'.args[1]].analyses
            IN  analyses[Len(analyses)] = held.result
      ]_vars

\* C25 as stated: no core operation adds, removes or changes a field of an
\* Analysis that analyze has returned; analyze_messages is one of them, so
\* the Analyses of its BatchResult are as analyze returned them.
AnalysisImmutable ==
    /\ AnalysisKeptByCallerAndProfile
    /\ [](BatchReturned =>
            \A k \in DOMAIN out.value.individual_analyses :
                out.value.individual_analyses[k] = AnalysisOfNth(k))

\* C25: no core operation removes or changes a field of an Analysis that
\* analyze has returned, and the only fields added are sender and
\* message_timestamp, which analyze_messages adds to each Analysis it got
\* from analyze before it returns it; add_to_profile and the read
\* operations of a profile leave every Analysis as it is.
AnalysisKeptButAnnotated ==
    /\ AnalysisKeptByCallerAndProfile
    /\ [](BatchReturned =>
            \A k \in DOMAIN out.value.individual_analyses :
                LET analysis == out.value.individual_analyses[k]
                IN  /\ DOMAIN analysis = AnalysisFields \cup {"sender", "message_timestamp"}
                    /\ \A f \in AnalysisFields : analysis[f] = AnalysisOfNth(k)[f])

\* analyze_messages returned an Analysis while the caller held another and
\* the profile of FORGE had one recorded
AnalysisKeptButAnnotatedWitness ==
    /\ BatchReturned
    /\ Len(out.value.individual_analyses) = 1
    /\ held # None
    /\ "FORGE" \in DOMAIN profiles
    /\ Len(profiles["FORGE"].analyses) = 1

-----------------------------------------------------------------------------
\* C26: scan_database raises ValueError when no store path is configured,
\* whatever the files are, and FileNotFoundError when the configured path
\* names no file; the first test is the one on the configuration; a call
\* that fails in one of the two ways returns nothing and leaves the
\* profiles, the path, the files and the clock as they were.
ScanChecksPathFirst ==
    [][ out'.op = "scan_database" =>
            /\ ~Truthy(db_path) => out'.raised = "ValueError"
            /\ (Truthy(db_path) /\ ~store[db_path].exists) =>
                    out'.raised = "FileNotFoundError"
            /\ out'.raised \in {"ValueError", "FileNotFoundError"} =>
                /\ ~Truthy(db_path) \/ ~store[db_path].exists
                /\ out'.value = None
                /\ profiles' = profiles
                /\ db_path' = db_path
                /\ store' = store
                /\ held' = held
                /\ now' = now
      ]_vars

\* a scan without a configured path failed while a database with rows
\* existed and FORGE had a profile
ScanChecksPathFirstWitness ==
    /\ out.op = "scan_database"
    /\ out.raised = "ValueError"
    /\ db_path = None
    /\ Len(store[BCH_DB].rows) = MaxRows
    /\ "FORGE" \in DOMAIN profiles

-----------------------------------------------------------------------------
\* every thread has returned from its add_to_profile call
AllReturned == \A t \in Threads : calls[t].pc = "done"

\* the threads that called add_to_profile for the agent
CallersFor(agent) == { t \in Threads : calls[t].agent_name = agent }

\* the analyses of the profile stored for the agent
StoredAnalyses(agent) == heap[profiles[agent]].analyses

\* C27: add_to_profile calls that run concurrently for an agent without a
\* profile can lose an analysis, and serialized calls cannot: once every call
\* has returned, the stored profile of an agent holds analyses of its
\* callers only, each at most once and at least one of them, and it holds
\* all of them when the host serializes the calls with a lock.  (That one
\* is lost without the lock is the state of LostAppendWitness.)
LostAppendOnlyWithoutLock ==
    AllReturned =>
        \A agent \in { calls[t].agent_name : t \in Threads } :
            /\ agent \in DOMAIN profiles
            /\ Len(StoredAnalyses(agent)) >= 1
            /\ \A k \in DOMAIN StoredAnalyses(agent) :
                \E t \in CallersFor(agent) : StoredAnalyses(agent)[k] = calls[t].analysis
            /\ \A k, h \in DOMAIN StoredAnalyses(agent) :
                k # h => StoredAnalyses(agent)[k] # StoredAnalyses(agent)[h]
            /\ lock # NoLock => Len(StoredAnalyses(agent)) = Cardinality(CallersFor(agent))

\* two calls for FORGE have run without a lock and returned, and the stored
\* profile holds one analysis: the other one is in a profile that is no
\* longer stored
LostAppendWitness ==
    /\ AllReturned
    /\ lock = NoLock
    /\ calls[1].agent_name = "FORGE"
    /\ calls[2].agent_name = "FORGE"
    /\ Len(StoredAnalyses("FORGE")) = 1
    /\ \E id \in DOMAIN heap : id # profiles["FORGE"] /\ Len(heap[id].analyses) = 1

-----------------------------------------------------------------------------
\* C28: analyze_messages on a non-empty sequence of messages returns a
\* BatchResult whatever the content of each message is: the empty string, a
\* missing key, None or a value that is no string; no message makes the
\* whole call fail.
NoMessageFailsTheBatch ==
    (/\ out.op = "analyze_messages"
     /\ out.raised # "pending"
     /\ Len(out.args[1]) > 0)
        => out.raised = "none"

-----------------------------------------------------------------------------
\* C29 as stated: the score of a dimension is greater than 0 whenever a
\* pattern of the dimension matches the text, whatever the word count and
\* the modifier are, and 0 when none matches.
MatchedScoresPositive ==
    AnalyzeReturned =>
        \A d \in Dims :
            /\ MatchTotal(d, out.args[1]) >= 1 => out.value.dimension_scores[d] > 0
            /\ MatchTotal(d, out.args[1]) = 0 => out.value.dimension_scores[d] = 0

\* C29: the score of a dimension is 0 when no pattern of it matches the
\* text and never below 0; it is greater than 0 when the dimension has a
\* match and the text has at most 1000 words for each match, whatever the
\* modifier is (a text of the word "happy" alone, however often repeated, is
\* such a text); in a longer text rounding can bring the score of a matched
\* dimension to 0.
MatchedScoresPositiveInShortTexts ==
    AnalyzeReturned =>
        \A d \in Dims :
            LET matched == MatchTotal(d, out.args[1])
                score == out.value.dimension_scores[d]
            IN  /\ matched = 0 => score = 0
                /\ score >= 0
                /\ (matched >= 1 /\ out.value.word_count <= 1000 * matched) => score > 0

\* "happy" followed by 999 other words has been scored: one match in a
\* thousand words, JOY 0.1
MatchedScoresPositiveInShortTextsWitness ==
    /\ AnalyzeReturned
    /\ out.args[1] = Padded(T_happy, 999)
    /\ out.value.word_count = 1000
    /\ MatchTotal("JOY", out.args[1]) = 1
    /\ out.value.dimension_scores["JOY"] = 10

-----------------------------------------------------------------------------
\* C30: in every Analysis, when dominant_score > 0 the first entry of
\* emotional_signature is dominant_emotion with dominant_score; the scores
\* of the signature are in non-increasing order and all greater than 0; and
\* when dominant_score = 0 the signature is empty and intensity_level is
\* subtle.
DominantLeadsSignature ==
    AnalyzeReturned =>
        LET signature == out.value.emotional_signature
        IN  /\ out.value.dominant_score >= 0
            /\ out.value.dominant_score > 0 =>
                /\ Len(signature) >= 1
                /\ signature[1] = [dim |-> out.value.dominant_emotion,
                                   score |-> out.value.dominant_score]
            /\ \A k, l \in 1..Len(signature) : k < l => signature[k].score >= signature[l].score
            /\ \A k \in 1..Len(signature) : signature[k].score > 0
            /\ out.value.dominant_score = 0 =>
                /\ signature = <<>>
                /\ out.value.intensity_level = "subtle"

\* "happy family" has been scored: WARMTH, BELONGING and JOY share the
\* highest score, WARMTH is dominant and leads the signature
DominantLeadsSignatureWitness ==
    /\ AnalyzeReturned
    /\ out.args[1] = PyStr(<<"h","a","p","p","y"," ","f","a","m","i","l","y">>)
    /\ out.value.dominant_emotion = "WARMTH"
    /\ out.value.dominant_score = out.value.dimension_scores["JOY"]
    /\ out.value.emotional_signature[1].dim = "WARMTH"
    /\ out.value.emotional_signature[3].dim = "JOY"

=============================================================================
